---------------------------- MODULE Spec2Model ----------------------------
(***************************************************************************)
(* Model of the oncology recall scrapers: the label normaliser and table   *)
(* extraction helpers (src/src/scrapers/utils.py, nafdac.py), the record   *)
(* identity (base.py), the adapters' record assembly and the persistence   *)
(* routines (database.py, base.py, main.py).                               *)
(*                                                                         *)
(* Python strings are modelled as sequences of one-character strings, so   *)
(* that stripping, case folding, regular-expression substitution and       *)
(* substring search are computed and not assumed.  Python's None is the    *)
(* one-element sequence None, which no string equals because its element   *)
(* is not a single character; a raised exception is the one-element        *)
(* sequence naming the exception.                                          *)
(***************************************************************************)
EXTENDS Integers, Sequences, FiniteSets, TLC

VARIABLES
    \* ---- normalize_key calls (SpecKey)
    label,        \* the argument of the call
    returnNone,   \* the return_none flag of the call
    keyOut,       \* what the call returned, Pending before it ran
    baseKey,      \* the synonym-table phrase the label is a spelling of, or None
    \* ---- table_to_grid calls (SpecGrid)
    table,        \* the <table>: its <tr> rows, each the sequence of its cells
    gridPc,       \* "call" before table_to_grid ran, "done" after
    grid,         \* the grid the call returned
    gridLog,      \* what the call's loop did: the rows before the empty ones
                  \* are dropped, and where each cell was placed
    \* ---- calls of a table parser (SpecTable: _parse_nafdac_table, SpecFda:
    \*      _parse_fda_usa_table)
    specTable,    \* the <table> handed to the parser
    specPc,       \* "call" before the parser ran, "done" after
    specs,        \* the mapping it returned: canonical key -> list of values
    \* ---- upsert calls (SpecStore)
    focus,        \* the optional field whose incoming values vary in this run
    recalls,      \* the rows of table recalls (database.py)
    alerts,       \* the rows of table oncology_alerts (base.py)
    alertsCols,   \* the columns of table oncology_alerts in the database file
    supplied,     \* per table and record_id: what the completed upserts supplied
    lastCall,     \* the last upsert call: routine, row, outcome, the row before
    nCalls,       \* the number of upsert calls made
    \* ---- record identity (SpecId)
    clock,        \* datetime.now(): the instant of the adapter's current step
    idLog,        \* the make_record_id calls made: adapter, item, instant, result
    \* ---- runs of main (SpecPipeline)
    content,      \* the source content: the listing items of each adapter
    mainDb,       \* the rows of table recalls in recalls.db
    runLog,       \* per run of main: how it ended and the record_ids it computed
    \* ---- parse_date calls (SpecDate)
    value,        \* the argument of parse_date, None included
    dateTable,    \* the detail page's <table> when an adapter makes the call
    datePc,       \* "direct" or "nafdac" before the call, "done" after
    parsed,       \* what the call gave: a date, None or the exception raised
    \* ---- the heading of a NAFDAC detail page (SpecTitle)
    heading,      \* the text of the page's <h1>, None when the page has none
    titlePc,      \* "call" before the heading is decomposed, "done" after
    decomposed,   \* what the decomposition gave, or the exception raised
    \* ---- an adapter enumerates its listing (SpecListing)
    scraper,      \* the adapter whose standardize runs
    filters,      \* cfg["filters"] of the adapter
    listing,      \* the listing: its items in listing order
    enumPc,       \* "call" before standardize ran, "done" after
    enumOut,      \* how it ended, the pages fetched, the items a record was
                  \* assembled for, and the records returned
    \* ---- the tables of a NAFDAC detail page (SpecPage)
    pageTables,   \* the page's <table> elements in document order
    pagePc,       \* "call" before _extract_product_specs ran, "done" after
    pageSpecs,    \* the mapping it returned
    \* ---- the bold labels of a NAFDAC detail page without table (SpecText)
    strongs,      \* the page's <strong> elements in document order: the text
                  \* of each and the text of its next sibling, None without
    textPc,       \* "call" before _extract_product_specs_from_text ran
    textSpecs     \* the mapping it returned

vars == << label, returnNone, keyOut, baseKey, table, gridPc, grid, gridLog,
          specTable, specPc, specs,
          focus, recalls, alerts, alertsCols, supplied, lastCall, nCalls,
          clock, idLog, content, mainDb, runLog,
          value, dateTable, datePc, parsed, heading, titlePc, decomposed,
          scraper, filters, listing, enumPc, enumOut, pageTables, pagePc, pageSpecs,
          strongs, textPc, textSpecs >>

\* the variables of the calls that the specification named sp does not make
\* are at rest
Idle(sp) ==
    /\ sp # "key" => label = <<"None">> /\ returnNone = FALSE
                          /\ keyOut = <<"Pending">> /\ baseKey = <<"None">>
    /\ sp # "grid" => table = << >> /\ gridPc = "idle" /\ grid = << >> /\ gridLog = << >>
    /\ sp # "table" => specTable = << >> /\ specPc = "idle" /\ specs = << >>
    /\ sp # "store" => focus = "none" /\ recalls = {} /\ alerts = {} /\ alertsCols = {}
                            /\ supplied = << >> /\ lastCall = << >> /\ nCalls = 0
    /\ sp # "id" => clock = 0 /\ idLog = {}
    /\ sp # "pipeline" => content = {} /\ mainDb = {} /\ runLog = << >>
    /\ sp # "date" => value = <<"None">> /\ dateTable = << >> /\ datePc = "idle"
                           /\ parsed = <<"Pending">>
    /\ sp # "title" => heading = <<"None">> /\ titlePc = "idle" /\ decomposed = << >>
    /\ sp # "listing" => scraper = "none" /\ filters = << >> /\ listing = << >>
                              /\ enumPc = "idle"
                              /\ enumOut = << >>
    /\ sp # "page" => pageTables = << >> /\ pagePc = "idle" /\ pageSpecs = << >>
    /\ sp # "text" => strongs = << >> /\ textPc = "idle" /\ textSpecs = << >>

\* and a call of sp leaves them alone
Frame(sp) ==
    /\ IF sp # "key" THEN UNCHANGED << label, returnNone, keyOut, baseKey >> ELSE TRUE
    /\ IF sp # "grid" THEN UNCHANGED << table, gridPc, grid, gridLog >> ELSE TRUE
    /\ IF sp # "table" THEN UNCHANGED << specTable, specPc, specs >> ELSE TRUE
    /\ IF sp # "store"
       THEN UNCHANGED << focus, recalls, alerts, alertsCols, supplied, lastCall, nCalls >>
       ELSE TRUE
    /\ IF sp # "id" THEN UNCHANGED << clock, idLog >> ELSE TRUE
    /\ IF sp # "pipeline" THEN UNCHANGED << content, mainDb, runLog >> ELSE TRUE
    /\ IF sp # "date" THEN UNCHANGED << value, dateTable, datePc, parsed >> ELSE TRUE
    /\ IF sp # "title" THEN UNCHANGED << heading, titlePc, decomposed >> ELSE TRUE
    /\ IF sp # "listing" THEN UNCHANGED << scraper, filters, listing, enumPc, enumOut >> ELSE TRUE
    /\ IF sp # "page" THEN UNCHANGED << pageTables, pagePc, pageSpecs >> ELSE TRUE
    /\ IF sp # "text" THEN UNCHANGED << strongs, textPc, textSpecs >> ELSE TRUE

-----------------------------------------------------------------------------
(* Values that are not strings *)

None == << "None" >>
Pending == << "Pending" >>
AttributeError == << "AttributeError" >>

-----------------------------------------------------------------------------
(* Characters *)

UpperChars == << "A","B","C","D","E","F","G","H","I","J","K","L","M",
                 "N","O","P","Q","R","S","T","U","V","W","X","Y","Z" >>
LowerChars == << "a","b","c","d","e","f","g","h","i","j","k","l","m",
                 "n","o","p","q","r","s","t","u","v","w","x","y","z" >>
DigitChars == { "0","1","2","3","4","5","6","7","8","9" }

Range(s) == { s[i] : i \in 1..Len(s) }

\* \s of the re module
IsSpace(c) == c \in { " ", "\t", "\n" }

\* \w of the re module: letters, digits and the underscore
IsWord(c) == c \in Range(UpperChars) \cup Range(LowerChars) \cup DigitChars \cup { "_" }

\* str.lower on one character
LowerChar(c) ==
    IF c \in Range(UpperChars)
    THEN LowerChars[CHOOSE i \in 1..26 : UpperChars[i] = c]
    ELSE c

\* str.upper on one character
UpperChar(c) ==
    IF c \in Range(LowerChars)
    THEN UpperChars[CHOOSE i \in 1..26 : LowerChars[i] = c]
    ELSE c

Lower(s) == [i \in 1..Len(s) |-> LowerChar(s[i])]
Upper(s) == [i \in 1..Len(s) |-> UpperChar(s[i])]

-----------------------------------------------------------------------------
(* String functions of the standard library, as the code uses them *)

RECURSIVE LStrip(_)
LStrip(s) == IF s # << >> /\ IsSpace(Head(s)) THEN LStrip(Tail(s)) ELSE s

RECURSIVE RStrip(_)
RStrip(s) ==
    IF s # << >> /\ IsSpace(s[Len(s)]) THEN RStrip(SubSeq(s, 1, Len(s) - 1)) ELSE s

\* str.strip()
Strip(s) == RStrip(LStrip(s))

\* str.rstrip(":"): every trailing colon goes
RECURSIVE RStripColon(_)
RStripColon(s) ==
    IF s # << >> /\ s[Len(s)] = ":" THEN RStripColon(SubSeq(s, 1, Len(s) - 1)) ELSE s

IsPunct(c) == ~IsWord(c) /\ ~IsSpace(c)

\* membership in the character class of a pattern: \s or [^\w\s]
InClass(cls, c) == IF cls = "space" THEN IsSpace(c) ELSE IsPunct(c)

\* re.sub(<class>+, rep, s): each maximal run of characters of the class
\* becomes one rep
RECURSIVE SubRuns(_, _, _, _)
SubRuns(s, cls, rep, inRun) ==
    IF s = << >> THEN << >>
    ELSE IF InClass(cls, Head(s))
         THEN (IF inRun THEN << >> ELSE << rep >>) \o SubRuns(Tail(s), cls, rep, TRUE)
         ELSE << Head(s) >> \o SubRuns(Tail(s), cls, rep, FALSE)

\* re.sub(r"\s+", rep, s)
SubSpaces(s, rep) == SubRuns(s, "space", rep, FALSE)

\* re.sub(r"[^\w\s]+", " ", s)
SubPunct(s) == SubRuns(s, "punct", " ", FALSE)

\* needle in hay
Contains(hay, needle) ==
    \E i \in 1..(Len(hay) - Len(needle) + 1) :
        SubSeq(hay, i, i + Len(needle) - 1) = needle

-----------------------------------------------------------------------------
(* utils.py: the canonical vocabulary and the synonym table *)

K_product_name == <<"p","r","o","d","u","c","t","_","n","a","m","e">>
K_batch_number == <<"b","a","t","c","h","_","n","u","m","b","e","r">>
K_expiry_date == <<"e","x","p","i","r","y","_","d","a","t","e">>
K_date_of_manufacture == <<"d","a","t","e","_","o","f","_","m","a","n","u","f","a","c","t","u","r","e">>
K_stated_manufacturer == <<"s","t","a","t","e","d","_","m","a","n","u","f","a","c","t","u","r","e","r">>

\* CANONICAL_MAP, in the insertion order a dict iterates in
CANONICAL_MAP ==
    << << <<"p","r","o","d","u","c","t">>, K_product_name >>,
       << <<"p","r","o","d","u","c","t"," ","n","a","m","e">>, K_product_name >>,
       << <<"n","a","m","e"," ","o","f"," ","p","r","o","d","u","c","t">>, K_product_name >>,
       << <<"b","a","t","c","h">>, K_batch_number >>,
       << <<"b","a","t","c","h"," ","n","o">>, K_batch_number >>,
       << <<"b","a","t","c","h"," ","n","u","m","b","e","r">>, K_batch_number >>,
       << <<"b","a","t","c","h"," ","n","u","m","b","e","r"," ">>, K_batch_number >>,
       << <<"l","o","t">>, K_batch_number >>,
       << <<"l","o","t"," ","n","o">>, K_batch_number >>,
       << <<"l","o","t"," ","n","u","m","b","e","r">>, K_batch_number >>,
       << <<"e","x","p","i","r","y">>, K_expiry_date >>,
       << <<"e","x","p","i","r","y"," ","d","a","t","e">>, K_expiry_date >>,
       << <<"e","x","p","i","r","a","t","i","o","n"," ","d","a","t","e">>, K_expiry_date >>,
       << <<"e","x","p"," ","d","a","t","e">>, K_expiry_date >>,
       << <<"m","a","n","u","f","a","c","t","u","r","i","n","g"," ","d","a","t","e">>, K_date_of_manufacture >>,
       << <<"m","a","n","u","f","a","c","t","u","r","e"," ","d","a","t","e">>, K_date_of_manufacture >>,
       << <<"d","a","t","e"," ","o","f"," ","m","a","n","u","f","a","c","t","u","r","e">>, K_date_of_manufacture >>,
       << <<"m","f","g"," ","d","a","t","e">>, K_date_of_manufacture >>,
       << <<"m","a","n","u","f","a","c","t","u","r","e","r">>, K_stated_manufacturer >>,
       << <<"s","t","a","t","e","d"," ","m","a","n","u","f","a","c","t","u","r","e","r">>, K_stated_manufacturer >>,
       << <<"s","t","a","t","e","d"," ","p","r","o","d","u","c","t"," ","m","a","n","u","f","a","c","t","u","r","e","r">>, K_stated_manufacturer >>,
       << <<"p","r","o","d","u","c","t"," ","m","a","n","u","f","a","c","t","u","r","e","r">>, K_stated_manufacturer >> >>

CanonicalKeys == { CANONICAL_MAP[i][2] : i \in 1..Len(CANONICAL_MAP) }

\* clean_text: None for a missing or empty string, else whitespace runs
\* collapsed and the ends stripped, None again when nothing is left
clean_text(s) ==
    IF s = None \/ s = << >> THEN None
    ELSE LET t == Strip(SubSpaces(s, " ")) IN IF t = << >> THEN None ELSE t

\* the cleaned label of normalize_key: rstrip(":"), punctuation runs to a
\* space, whitespace runs to a space, lower case.  Nothing strips the ends
\* after the punctuation has become spaces.
CleanLabel(cleaned) == Lower(SubSpaces(SubPunct(RStripColon(cleaned)), " "))

\* the exact-match lookup: label in CANONICAL_MAP
ExactMatch(lbl) ==
    IF \E i \in 1..Len(CANONICAL_MAP) : CANONICAL_MAP[i][1] = lbl
    THEN CANONICAL_MAP[CHOOSE i \in 1..Len(CANONICAL_MAP) : CANONICAL_MAP[i][1] = lbl][2]
    ELSE None

\* the contains loop: the first phrase, in table order, that occurs in the label
ContainsMatch(lbl) ==
    LET hits == { i \in 1..Len(CANONICAL_MAP) : Contains(lbl, CANONICAL_MAP[i][1]) }
    IN  IF hits = {} THEN None
        ELSE CANONICAL_MAP[CHOOSE i \in hits : \A j \in hits : i <= j][2]

\* normalize_key(label, return_none)
normalize_key(lbl, return_none) ==
    IF lbl = None \/ lbl = << >> THEN None
    ELSE LET cleaned == clean_text(lbl) IN
         IF cleaned = None THEN AttributeError   \* None.rstrip(":")
         ELSE LET l == CleanLabel(cleaned) IN
              IF ExactMatch(l) # None THEN ExactMatch(l)
              ELSE IF ContainsMatch(l) # None THEN ContainsMatch(l)
              ELSE IF return_none THEN None
              ELSE SubSpaces(l, "_")

-----------------------------------------------------------------------------
(* The labels normalize_key is called with *)

\* capitalise the first letter of every word
TitleCase(s) ==
    [i \in 1..Len(s) |-> IF i = 1 \/ IsSpace(s[i - 1]) THEN UpperChar(s[i]) ELSE s[i]]

\* every space becomes sep
ReplaceSpaces(s, sep) ==
    LET F[i \in 0..Len(s)] ==
            IF i = 0 THEN << >>
            ELSE F[i - 1] \o (IF s[i] = " " THEN sep ELSE << s[i] >>)
    IN  F[Len(s)]

\* the spellings of a synonym-table phrase that differ from it in letter
\* case, a trailing colon, punctuation or whitespace runs only
SpellingVariants(k) ==
    { k, Upper(k), TitleCase(k),
      k \o << ":" >>, TitleCase(k) \o << ":" >>,
      k \o << "." >>, TitleCase(k) \o << ".", ":" >>,
      k \o << " ", ":" >>,
      << " " >> \o k \o << " " >>,
      ReplaceSpaces(k, << " ", " " >>),
      ReplaceSpaces(k, << "-" >>),
      ReplaceSpaces(TitleCase(k), << ".", " " >>) }

\* label literals
BATCH_NUMBER_CAP == <<"B","a","t","c","h"," ","N","u","m","b","e","r">>
BATCH_NUMBER_COLON == <<"b","a","t","c","h"," ","n","u","m","b","e","r",":">>
BATCH_NO_DOT == <<"B","a","t","c","h"," ","N","o",".">>
PRODUCT_NAME_UP == <<"P","R","O","D","U","C","T"," ","N","A","M","E">>
EXPIRY_DATE_CAP == <<"E","x","p","i","r","y"," ","D","a","t","e">>
STATED_MANUFACTURER_CAP == <<"S","t","a","t","e","d"," ","M","a","n","u","f","a","c","t","u","r","e","r">>
PRODUCT_MANUFACTURER_NAME == <<"P","r","o","d","u","c","t"," ","M","a","n","u","f","a","c","t","u","r","e","r"," ","N","a","m","e">>
NDC_LABEL == <<"N","D","C">>
REMARKS_LABEL == <<"R","e","m","a","r","k","s">>
PACK_SIZE_LABEL == <<"P","a","c","k"," ","S","i","z","e">>

\* the labels of the tests and of the specification's examples
ExampleLabels ==
    { BATCH_NUMBER_CAP, BATCH_NUMBER_COLON, BATCH_NO_DOT,
      PRODUCT_NAME_UP, EXPIRY_DATE_CAP, STATED_MANUFACTURER_CAP }

\* labels that are no spelling of a synonym-table phrase
OtherLabels ==
    { None, << >>, << " " >>, << ":" >>, << "." >>,
      PRODUCT_MANUFACTURER_NAME, NDC_LABEL, REMARKS_LABEL, PACK_SIZE_LABEL }

-----------------------------------------------------------------------------
(* SpecKey: calls of normalize_key *)

InitKey ==
    /\ \E i \in 1..Len(CANONICAL_MAP) :
          \/ /\ label \in SpellingVariants(CANONICAL_MAP[i][1])
             /\ baseKey = CANONICAL_MAP[i][1]
          \/ /\ label \in OtherLabels
             /\ baseKey = None
    /\ returnNone \in BOOLEAN
    /\ keyOut = Pending
    /\ Idle("key")

NormalizeKeyCall ==
    /\ keyOut = Pending
    /\ keyOut' = normalize_key(label, returnNone)
    /\ UNCHANGED << label, returnNone, baseKey >>
    /\ Frame("key")

NextKey == NormalizeKeyCall

SpecKey == InitKey /\ [][NextKey]_vars

\* the canonical key the synonym table gives a phrase
CanonicalOf(k) == ExactMatch(k)

\* C10: every spelling variant of a synonym-table phrase (letter case, a
\* trailing colon, punctuation, whitespace runs) normalises to the canonical
\* key of that phrase.
C10_VariantsAgree ==
    (keyOut # Pending /\ baseKey # None) => keyOut = CanonicalOf(baseKey)

\* the examples C10 names do normalise as it says
C10_ExamplesHold ==
    (keyOut # Pending /\ label \in ExampleLabels) =>
        keyOut = (CASE label = PRODUCT_NAME_UP -> K_product_name
                    [] label = EXPIRY_DATE_CAP -> K_expiry_date
                    [] label = STATED_MANUFACTURER_CAP -> K_stated_manufacturer
                    [] OTHER -> K_batch_number)

\* the synonym-table phrases that occur in the cleaned label
PhrasesIn(lbl) ==
    { i \in 1..Len(CANONICAL_MAP) : Contains(CleanLabel(clean_text(lbl)), CANONICAL_MAP[i][1]) }

\* C11: a label without an exact match that contains synonym-table phrases
\* resolves to the canonical key of the concept it names, the key of the
\* longest phrase it contains; "Product Manufacturer Name" resolves to
\* stated_manufacturer, not to product_name.
C11_ContainsNamesConcept ==
    (keyOut # Pending /\ baseKey = None /\ clean_text(label) # None
        /\ ExactMatch(CleanLabel(clean_text(label))) = None
        /\ PhrasesIn(label) # {}) =>
        /\ \E i \in PhrasesIn(label) :
              /\ \A j \in PhrasesIn(label) :
                    Len(CANONICAL_MAP[j][1]) <= Len(CANONICAL_MAP[i][1])
              /\ keyOut = CANONICAL_MAP[i][2]
        /\ label = PRODUCT_MANUFACTURER_NAME => keyOut = K_stated_manufacturer

-----------------------------------------------------------------------------
(* utils.py: table_to_grid (nafdac.py nests a copy of the same code) *)

\* cell_text: the cell's text through clean_text, so None for an empty cell
cell_text(cell) == clean_text(cell.text)

\* row_width: the sum of the colspans of the row's cells
row_width(tr) ==
    LET W[i \in 0..Len(tr)] == IF i = 0 THEN 0 ELSE W[i - 1] + tr[i].colspan
    IN  W[Len(tr)]

\* max(row_width(tr) for tr in trs)
MaxWidth(trs) ==
    LET ws == { row_width(trs[i]) : i \in 1..Len(trs) }
    IN  CHOOSE w \in ws : \A v \in ws : v <= w

NoPending == [remain |-> 0, val |-> None]

\* "Prefill from pending rowspans": a pending column gets its value and
\* one row less to go
PrefillRow(ncols, pending) ==
    [c \in 1..ncols |-> IF pending[c].remain > 0 THEN pending[c].val ELSE None]

PrefillPending(ncols, pending) ==
    [c \in 1..ncols |->
        IF pending[c].remain > 1
        THEN [remain |-> pending[c].remain - 1, val |-> pending[c].val]
        ELSE NoPending]

\* "Find next empty slot": the first column from ptr on whose slot is None
RECURSIVE NextEmpty(_, _, _)
NextEmpty(row, ncols, ptr) ==
    IF ptr <= ncols /\ row[ptr] # None THEN NextEmpty(row, ncols, ptr + 1) ELSE ptr

\* a placement that writes the text to the first column of the span only
PlaceCellFirstColumn(st, cell, ncols) ==
    LET ptr == NextEmpty(st.row, ncols, st.ptr) IN
    IF st.stop \/ ptr > ncols
    THEN [st EXCEPT !.stop = TRUE, !.ptr = ptr]
    ELSE LET text == cell_text(cell) IN
         [row     |-> [c \in 1..ncols |-> IF c = ptr THEN text ELSE st.row[c]],
          pending |-> [c \in 1..ncols |->
                          IF c = ptr /\ cell.rowspan > 1
                          THEN [remain |-> cell.rowspan - 1, val |-> text]
                          ELSE st.pending[c]],
          ptr     |-> ptr + cell.colspan,
          stop    |-> FALSE,
          placed  |-> Append(st.placed, [col |-> ptr, cell |-> cell])]

\* one cell of the row: st is the row so far, the pending rowspans, the
\* column pointer, whether the loop has hit its break, and (for the
\* properties) the column each placed cell started at
PlaceCell(st, cell, ncols) ==
    LET ptr == NextEmpty(st.row, ncols, st.ptr) IN
    IF st.stop \/ ptr > ncols
    THEN [st EXCEPT !.stop = TRUE, !.ptr = ptr]
    ELSE LET text == cell_text(cell)
             covered == { c \in 1..ncols : ptr <= c /\ c < ptr + cell.colspan }
         IN  [row     |-> [c \in 1..ncols |-> IF c \in covered THEN text ELSE st.row[c]],
              pending |-> [c \in 1..ncols |->
                              IF c \in covered /\ cell.rowspan > 1
                              THEN [remain |-> cell.rowspan - 1, val |-> text]
                              ELSE st.pending[c]],
              ptr     |-> ptr + cell.colspan,
              stop    |-> FALSE,
              placed  |-> Append(st.placed, [col |-> ptr, cell |-> cell])]

\* "Fill with this row's cells", left to right
RECURSIVE FillCells(_, _, _)
FillCells(cells, st, ncols) ==
    IF cells = << >> THEN st
    ELSE FillCells(Tail(cells), PlaceCell(st, Head(cells), ncols), ncols)

\* the loop over the rows: for every <tr> the row it appends to the grid
\* (and the cells it placed)
RECURSIVE GridRows(_, _, _)
GridRows(trs, ncols, pending) ==
    IF trs = << >> THEN << >>
    ELSE LET st == FillCells(Head(trs),
                             [row     |-> PrefillRow(ncols, pending),
                              pending |-> PrefillPending(ncols, pending),
                              ptr     |-> 1,
                              stop    |-> FALSE,
                              placed  |-> << >>],
                             ncols)
         IN  << [row |-> st.row, placed |-> st.placed] >>
                 \o GridRows(Tail(trs), ncols, st.pending)

\* (c or "").strip()
OrEmpty(c) == IF c = None THEN << >> ELSE Strip(c)

\* the grid with every row, None as "" (the rows the last loop filters)
RawGrid(trs) ==
    IF trs = << >> THEN << >>
    ELSE LET ncols == MaxWidth(trs) IN
         IF ncols = 0 THEN << >>
         ELSE LET g == GridRows(trs, ncols, [c \in 1..ncols |-> NoPending])
              IN  [i \in 1..Len(g) |-> [c \in 1..ncols |-> OrEmpty(g[i].row[c])]]

\* where the loop placed the cells: the <tr>, the first column and the cell
Placements(trs) ==
    IF trs = << >> \/ MaxWidth(trs) = 0 THEN {}
    ELSE LET ncols == MaxWidth(trs)
             g == GridRows(trs, ncols, [c \in 1..ncols |-> NoPending])
         IN  UNION { { [r |-> i, col |-> g[i].placed[j].col, cell |-> g[i].placed[j].cell] :
                          j \in 1..Len(g[i].placed) } : i \in 1..Len(g) }

\* any(rr)
AnyCell(rr) == \E c \in 1..Len(rr) : rr[c] # << >>

\* a last loop that keeps every row
KeepEveryRow(g) == g

RECURSIVE KeepNonEmpty(_)
KeepNonEmpty(g) ==
    IF g = << >> THEN << >>
    ELSE (IF AnyCell(Head(g)) THEN << Head(g) >> ELSE << >>) \o KeepNonEmpty(Tail(g))

\* table_to_grid(tbl)
table_to_grid(trs) == KeepNonEmpty(RawGrid(trs))

-----------------------------------------------------------------------------
(* SpecGrid: calls of table_to_grid *)

MaxRows == 2

CellLetters == << "a", "b", "c", "d", "e", "f", "g", "h" >>

\* the j-th cell of the r-th row is empty or holds a text of its own, and
\* has a colspan and a rowspan of 1 or 2
CellsAt(r, j) ==
    [text : { << >>, << CellLetters[2 * (r - 1) + j] >> },
     colspan : { 1, 2 }, rowspan : { 1, 2 }]

\* a <tr> of no, one or two cells
RowsAt(r) ==
    UNION { { row \in [1..n -> UNION { CellsAt(r, j) : j \in 1..n }] :
                \A j \in 1..n : row[j] \in CellsAt(r, j) } : n \in 0..2 }

RECURSIVE TablesOfLen(_)
TablesOfLen(m) ==
    IF m = 0 THEN { << >> }
    ELSE { Append(t, row) : t \in TablesOfLen(m - 1), row \in RowsAt(m) }

InitGrid ==
    /\ table \in UNION { TablesOfLen(m) : m \in 0..MaxRows }
    /\ gridPc = "call" /\ grid = << >> /\ gridLog = << >>
    /\ Idle("grid")

TableToGridCall ==
    /\ gridPc = "call"
    /\ gridPc' = "done"
    /\ grid' = table_to_grid(table)
    /\ gridLog' = [raw |-> RawGrid(table), placed |-> Placements(table)]
    /\ UNCHANGED table
    /\ Frame("grid")

NextGrid == TableToGridCall

SpecGrid == InitGrid /\ [][NextGrid]_vars

Min(a, b) == IF a <= b THEN a ELSE b

\* C7: a cell with rowspan k placed at row r, column c has its text at
\* column c of every one of the rows r..r+k-1 the table has; no cell of a
\* later row replaces it there.
C7_RowspanReplicated ==
    gridPc = "done" =>
        \A p \in gridLog.placed :
            p.cell.rowspan > 1 =>
                \A i \in p.r..Min(p.r + p.cell.rowspan - 1, Len(gridLog.raw)) :
                    gridLog.raw[i][p.col] = OrEmpty(cell_text(p.cell))

-----------------------------------------------------------------------------
(* nafdac.py: _parse_nafdac_table *)

\* a header, key or value that Python takes as true
Truthy(v) == v # None /\ v # << >>

\* the cells of one row that fall under a header with key k, left to right,
\* the empty ones left out
RowValues(r, headers, k) ==
    LET F[i \in 0..Len(headers)] ==
            IF i = 0 THEN << >>
            ELSE F[i - 1] \o (IF headers[i] = k /\ Strip(r[i]) # << >>
                              THEN << Strip(r[i]) >> ELSE << >>)
    IN  F[Len(headers)]

\* CASE A, the loop over rows[1:]: what result[k] has been appended
RECURSIVE MatrixValues(_, _, _)
MatrixValues(rows, headers, k) ==
    IF rows = << >> THEN << >>
    ELSE RowValues(Head(rows), headers, k) \o MatrixValues(Tail(rows), headers, k)

\* a classifier that takes row 0 for a data row as well
ParseMatrixNoHeader(rows) ==
    LET headers == [i \in 1..Len(rows[1]) |-> normalize_key(rows[1][i], FALSE)]
        keys == { h \in Range(headers) : Truthy(h) }
    IN  [k \in keys |-> MatrixValues(rows, headers, k)]

\* CASE A: row 0 gives the headers, every header that is true is a key
ParseMatrix(rows) ==
    LET headers == [i \in 1..Len(rows[1]) |-> normalize_key(rows[1][i], FALSE)]
        keys == { h \in Range(headers) : Truthy(h) }
    IN  [k \in keys |-> MatrixValues(Tail(rows), headers, k)]

\* CASE B, the loop over the rows: what result[k] has been appended
RECURSIVE PairValues(_, _)
PairValues(rows, k) ==
    IF rows = << >> THEN << >>
    ELSE LET key == normalize_key(Head(rows)[1], FALSE)
             val == Strip(Head(rows)[2])
         IN  (IF Truthy(key) /\ val # << >> /\ key = k THEN << val >> ELSE << >>)
                 \o PairValues(Tail(rows), k)

\* a classifier that takes row 0 of a two-column grid for a header row
ParsePairsSkipHeader(rows) ==
    LET keys == { normalize_key(rows[i][1], FALSE) : i \in 2..Len(rows) }
        used == { k \in keys : Truthy(k) /\ PairValues(Tail(rows), k) # << >> }
    IN  [k \in used |-> PairValues(Tail(rows), k)]

\* CASE B: every row is a label and a value
ParsePairs(rows) ==
    LET keys == { normalize_key(rows[i][1], FALSE) : i \in 1..Len(rows) }
        used == { k \in keys : Truthy(k) /\ PairValues(rows, k) # << >> }
    IN  [k \in used |-> PairValues(rows, k)]

\* the empty dict
EmptyDict == [k \in {} |-> << >>]

\* _parse_nafdac_table(table)
parse_nafdac_table(tbl) ==
    LET rows == table_to_grid(tbl) IN
    IF rows = << >> THEN EmptyDict
    ELSE LET ncols == Len(rows[1]) IN
         IF ncols >= 3 THEN ParseMatrix(rows)
         ELSE IF ncols = 2 THEN ParsePairs(rows)
         ELSE EmptyDict

-----------------------------------------------------------------------------
(* SpecTable: calls of _parse_nafdac_table *)

MaxDataRows == 2
MaxPairRows == 3

\* a <td> without span attributes
Td(text) == [text |-> text, colspan |-> 1, rowspan |-> 1]

\* the header cells and labels of the generated tables
HeaderLabels ==
    { PRODUCT_NAME_UP, BATCH_NUMBER_CAP, BATCH_NO_DOT, << >> }

ValueLetters == << "1", "2", "3", "4", "5", "6", "7", "8", "9" >>

\* the texts of the cell of row r, column j of a generated table of ncols
\* columns: a label in a header row and in the label column of a two-column
\* table, elsewhere nothing or a text of the cell's own
CellTexts(r, j, ncols) ==
    IF (ncols # 2 /\ r = 1) \/ (ncols = 2 /\ j = 1) THEN HeaderLabels
    ELSE { << >>, << ValueLetters[IF ncols = 2 THEN r ELSE ncols * (r - 2) + j] >> }

RECURSIVE TableRows(_, _)
TableRows(m, ncols) ==
    IF m = 0 THEN { << >> }
    ELSE { Append(t, [j \in 1..ncols |-> Td(txt[j])]) :
              t \in TableRows(m - 1, ncols),
              txt \in { f \in [1..ncols -> HeaderLabels \cup
                                   { << ValueLetters[i] >> : i \in 1..Len(ValueLetters) }] :
                            \A j \in 1..ncols : f[j] \in CellTexts(m, j, ncols) } }

\* the three-column table of the Darzalex notice
DarzalexTable ==
    << << Td(<<"P","r","o","d","u","c","t"," ","N","a","m","e">>),
          Td(<<"B","a","t","c","h"," ","N","u","m","b","e","r">>),
          Td(<<"E","x","p","i","r","y"," ","D","a","t","e">>) >>,
       << Td(<<"D","a","r","z","a","l","e","x"," ","(","D","a","r","a","t","u","m","u","m","a","b",")"," ","1","8","0","0","m","g","/","1","5"," ","m","l"," ","v","i","a","l"," ","f","o","r"," ","S","C"," ","I","n","j","e","c","t","i","o","n">>),
          Td(<<"P","K","S","1","F","0","1">>),
          Td(<<"1","0","-","2","0","2","6">>) >> >>

\* the two-column table of the HERCEPTIN notice
HerceptinTable ==
    << << Td(<<"P","r","o","d","u","c","t"," ","N","a","m","e">>),
          Td(<<"H","E","R","C","E","P","T","I","N"," ","6","0","0","m","g","/","5","m","l"," ","i","n","j","e","c","t","i","o","n">>) >>,
       << Td(<<"S","t","a","t","e","d"," ","M","a","n","u","f","a","c","t","u","r","e","r">>),
          Td(<<"R","o","c","h","e"," ","P","r","o","d","u","c","t","s"," ","L","i","m","i","t","e","d">>) >>,
       << Td(<<"B","a","t","c","h"," ","n","u","m","b","e","r">>),
          Td(<<"A","8","5","1","9">>) >>,
       << Td(<<"E","x","p","i","r","y"," ","d","a","t","e">>),
          Td(<<"1","2","/","2","0","2","6">>) >>,
       << Td(<<"D","a","t","e"," ","o","f"," ","m","a","n","u","f","a","c","t","u","r","e">>),
          Td(<<"0","1","/","2","0","2","4">>) >> >>

InitTable ==
    /\ specTable \in UNION { TableRows(m, 3) : m \in 1..(MaxDataRows + 1) }
                        \cup UNION { TableRows(m, 2) : m \in 1..MaxPairRows }
                        \cup TableRows(2, 1)
                        \cup { << >>, DarzalexTable, HerceptinTable }
    /\ specPc = "call" /\ specs = << >>
    /\ Idle("table")

ParseNafdacTableCall ==
    /\ specPc = "call"
    /\ specPc' = "done"
    /\ specs' = parse_nafdac_table(specTable)
    /\ UNCHANGED specTable
    /\ Frame("table")

NextTable == ParseNafdacTableCall

SpecTable == InitTable /\ [][NextTable]_vars

\* the grid the parser classified
SpecGridOf == table_to_grid(specTable)

\* the non-empty values of column c of the rows after the first, in row order
ColumnValues(rows, c) ==
    LET F[i \in 1..Len(rows)] ==
            IF i = 1 THEN << >>
            ELSE F[i - 1] \o (IF rows[i][c] # << >> THEN << rows[i][c] >> ELSE << >>)
    IN  F[Len(rows)]

\* sub is s with some elements left out
RECURSIVE IsSubseq(_, _)
IsSubseq(sub, s) ==
    IF sub = << >> THEN TRUE
    ELSE IF s = << >> THEN FALSE
    ELSE IF Head(sub) = Head(s) THEN IsSubseq(Tail(sub), Tail(s))
    ELSE IsSubseq(sub, Tail(s))

\* the columns of the grid whose header normalises to k
ColumnsOf(rows, k) == { c \in 1..Len(rows[1]) : normalize_key(rows[1][c], FALSE) = k }

IsMatrix == specPc = "done" /\ SpecGridOf # << >> /\ Len(SpecGridOf[1]) >= 3

PairRowsOf(rows, k) ==
    { i \in 1..Len(rows) : normalize_key(rows[i][1], FALSE) = k /\ rows[i][2] # << >> }

IsPairs == specPc = "done" /\ SpecGridOf # << >> /\ Len(SpecGridOf[1]) = 2

\* C9: in the two-column case every row, row 0 included, whose label has a
\* key and whose value is not empty contributes its value to that key's
\* list, in row order, and no other row contributes; the HERCEPTIN table
\* gives the five canonical keys, each with its one value verbatim.
C9_PairLists ==
    IsPairs =>
        /\ DOMAIN specs = { k \in { normalize_key(SpecGridOf[i][1], FALSE) :
                                       i \in 1..Len(SpecGridOf) } :
                              Truthy(k) /\ PairRowsOf(SpecGridOf, k) # {} }
        /\ \A k \in DOMAIN specs :
              /\ Len(specs[k]) = Cardinality(PairRowsOf(SpecGridOf, k))
              /\ \A i, j \in PairRowsOf(SpecGridOf, k) :
                    i < j =>
                        \E a, b \in 1..Len(specs[k]) :
                            a < b /\ specs[k][a] = SpecGridOf[i][2]
                                  /\ specs[k][b] = SpecGridOf[j][2]
              /\ \A i \in PairRowsOf(SpecGridOf, k) :
                    \E a \in 1..Len(specs[k]) : specs[k][a] = SpecGridOf[i][2]
        /\ specTable = HerceptinTable =>
              specs = (K_product_name :> << HerceptinTable[1][2].text >>)
                          @@ (K_stated_manufacturer :> << HerceptinTable[2][2].text >>)
                          @@ (K_batch_number :> << HerceptinTable[3][2].text >>)
                          @@ (K_expiry_date :> << HerceptinTable[4][2].text >>)
                          @@ (K_date_of_manufacture :> << HerceptinTable[5][2].text >>)

\* C9 witness: the HERCEPTIN table was parsed and gave five keys
C9_Witness ==
    /\ specPc = "done" /\ specTable = HerceptinTable
    /\ Cardinality(DOMAIN specs) = 5

-----------------------------------------------------------------------------
(* database.py: upsert_df; base.py: init_db, _upsert_sqlite *)

\* the columns of CREATE TABLE recalls
RecallsColumns ==
    { "record_id", "source_id", "source_org", "source_url", "product_name",
      "source_country", "manufacturer", "distributor", "publish_date",
      "scraped_at", "reason", "more_info" }

\* the columns of CREATE TABLE oncology_alerts
InitDbColumns ==
    { "record_id", "source_id", "source_country", "source_org", "source_url",
      "title", "publish_date", "manufacturer_stated", "manufactured_for",
      "therapeutic_category", "reason", "alert_type", "notes", "body_text",
      "scraped_at" }

\* the fields of DrugAlert, the keys of model_dump()
DrugAlertFields ==
    { "record_id", "source_id", "source_country", "source_org", "source_url",
      "title", "manufacturer_stated", "manufactured_for", "reason",
      "therapeutic_category", "alert_type", "publish_date", "notes",
      "scraped_at", "product_name", "batch_number", "expiry_date" }

\* "required/provenance fields: always update"
ProvenanceFields == { "source_id", "source_org", "source_url" }

\* "optional fields: only update if incoming is NOT NULL"
OptionalFields ==
    { "product_name", "source_country", "manufacturer", "distributor",
      "publish_date", "reason", "more_info" }

\* pandas' null of a datetime column
NaT == << "NaT" >>

\* the instants of the runs, earliest first; a datetime is << "dt", d >>
TimeDigits == << "1", "2", "3", "4" >>

\* x.isoformat(sep): the date, the separator and the time of day; None has
\* no such method, NaT answers "NaT"
isoformat(x, sep) ==
    IF x = None THEN AttributeError
    ELSE IF x = NaT THEN << "N", "a", "T" >>
    ELSE << "2025-01-01", sep, x[2] >>

\* SQLite's a < b on two TEXT values of one length
TextLess(a, b) ==
    LET Ord(ch) == CHOOSE i \in 1..Len(TimeDigits) : TimeDigits[i] = ch IN
    \E i \in 1..Len(a) :
        /\ \A j \in 1..(i - 1) : a[j] = b[j]
        /\ a[i] # b[i]
        /\ Ord(a[i]) < Ord(b[i])

\* a provenance that never replaces the stored one
ConflictUpdateDfKeepsProvenance(old, excluded) ==
    [c \in DOMAIN old |->
        IF c \in OptionalFields
        THEN IF excluded[c] # None THEN excluded[c] ELSE old[c]
        ELSE IF c = "scraped_at"
        THEN IF excluded[c] = None THEN old[c]
             ELSE IF old[c] = None THEN excluded[c]
             ELSE IF TextLess(old[c], excluded[c]) THEN excluded[c]
             ELSE old[c]
        ELSE old[c]]

\* upsert_df: ON CONFLICT(record_id) DO UPDATE SET ...
ConflictUpdateDf(old, excluded) ==
    [c \in DOMAIN old |->
        IF c \in ProvenanceFields THEN excluded[c]
        ELSE IF c \in OptionalFields
        THEN IF excluded[c] # None THEN excluded[c] ELSE old[c]
        ELSE IF c = "scraped_at"
        THEN IF excluded[c] = None THEN old[c]
             ELSE IF old[c] = None THEN excluded[c]
             ELSE IF TextLess(old[c], excluded[c]) THEN excluded[c]
             ELSE old[c]
        ELSE old[c]]

\* upsert_df(conn, df) for a frame of one row: the outcome and the table
upsert_df(tbl, row) ==
    LET publish_date == isoformat(row["publish_date"], "T")
        scraped_at == isoformat(row["scraped_at"], "T")
    IN  IF publish_date = AttributeError \/ scraped_at = AttributeError
        THEN [out |-> "AttributeError", tbl |-> tbl]
        ELSE LET excluded == [row EXCEPT !["publish_date"] = publish_date,
                                         !["scraped_at"] = scraped_at]
                 old == { r \in tbl : r["record_id"] = excluded["record_id"] }
             IN  IF old = {}
                 THEN [out |-> "ok", tbl |-> tbl \cup { excluded }]
                 ELSE [out |-> "ok",
                       tbl |-> (tbl \ old) \cup { ConflictUpdateDf(r, excluded) : r \in old }]

\* sqlite3 binds a datetime as its text with a blank between date and time
Adapt(c, v) ==
    IF c \in { "publish_date", "scraped_at" } /\ v # None THEN isoformat(v, " ") ELSE v

\* _upsert_sqlite(conn, record): "On conflict, update everything except
\* record_id"; cols are the columns the table has
upsert_sqlite(tbl, cols, record) ==
    IF ~ (DOMAIN record \subseteq cols)
    THEN [out |-> "OperationalError", tbl |-> tbl]
    ELSE LET excluded == [c \in cols |-> IF c \in DOMAIN record
                                          THEN Adapt(c, record[c]) ELSE None]
             old == { r \in tbl : r["record_id"] = excluded["record_id"] }
         IN  IF old = {}
             THEN [out |-> "ok", tbl |-> tbl \cup { excluded }]
             ELSE [out |-> "ok",
                   tbl |-> (tbl \ old) \cup
                               { [c \in cols |-> IF c \in DOMAIN record \ { "record_id" }
                                                  THEN excluded[c] ELSE r[c]] : r \in old }]

-----------------------------------------------------------------------------
(* SpecStore: calls of upsert_df and _upsert_sqlite *)

MaxCalls == 3
MaxTime == 2

RecordIds == { << "r1" >>, << "r2" >> }
Datetimes == { << "dt", TimeDigits[i] >> : i \in 1..MaxTime }

\* the values of column c of an incoming row: the focus field takes any
\* value v, every other field one that does not vary
IncomingValue(c, v) ==
    IF c = focus THEN v
    ELSE IF c = "publish_date" THEN << "dt", TimeDigits[1] >>
    ELSE IF c = "alert_type" THEN None
    ELSE << "A" >>

\* the rows, over the columns cols, that a call is made with
IncomingRows(cols, nulls) ==
    { [c \in cols |->
          IF c = "record_id" THEN id
          ELSE IF c \in ProvenanceFields THEN << c, p >>
          ELSE IF c = "scraped_at" THEN at
          ELSE IncomingValue(c, v)] :
        id \in RecordIds, p \in { "p", "q" }, at \in Datetimes,
        v \in IF focus = "publish_date" THEN Datetimes \cup nulls
              ELSE { << "A" >>, << "B" >> } \cup (nulls \ { NaT }) }

\* a value that is no value: None, and NaT in a datetime column
IsNull(v) == v = None \/ v = NaT

\* the later of two datetimes, None deferring to the other
Later(a, b) ==
    IF a = None THEN b
    ELSE IF b = None THEN a
    ELSE LET Ord(x) == CHOOSE i \in 1..Len(TimeDigits) : TimeDigits[i] = x[2]
         IN  IF Ord(a) >= Ord(b) THEN a ELSE b

Nothing == [n |-> 0, opt |-> [c \in OptionalFields |-> None], maxAt |-> None,
            prov |-> [c \in ProvenanceFields |-> None]]

\* what a completed upsert of row into table t adds to what was supplied
Supply(t, row) ==
    LET key == << t, row["record_id"] >>
        was == supplied[key]
    IN  [supplied EXCEPT ![key] =
            [n     |-> was.n + 1,
             opt   |-> [c \in OptionalFields |->
                           IF c \in DOMAIN row /\ ~ IsNull(row[c]) THEN row[c]
                           ELSE was.opt[c]],
             maxAt |-> Later(was.maxAt, row["scraped_at"]),
             prov  |-> [c \in ProvenanceFields |-> row[c]]]]

InitStore ==
    /\ focus \in OptionalFields
    /\ recalls = {} /\ alerts = {}
    /\ alertsCols \in { InitDbColumns, DrugAlertFields }
    /\ supplied = [key \in { "recalls", "oncology_alerts" } \X RecordIds |-> Nothing]
    /\ lastCall = [routine |-> "none"]
    /\ nCalls = 0
    /\ Idle("store")

UpsertDfCall ==
    /\ nCalls < MaxCalls
    /\ \E row \in IncomingRows(RecallsColumns, { None, NaT }) :
          LET res == upsert_df(recalls, row) IN
          /\ recalls' = res.tbl
          /\ supplied' = IF res.out = "ok" THEN Supply("recalls", row) ELSE supplied
          /\ lastCall' = [routine |-> "upsert_df", row |-> row, out |-> res.out,
                          before |-> { r \in recalls : r["record_id"] = row["record_id"] }]
    /\ nCalls' = nCalls + 1
    /\ UNCHANGED << focus, alerts, alertsCols >>
    /\ Frame("store")

UpsertSqliteCall ==
    /\ nCalls < MaxCalls
    /\ \E record \in IncomingRows(DrugAlertFields,
                                  IF focus \in { "product_name", "source_country" }
                                  THEN {} ELSE { None }) :
          LET res == upsert_sqlite(alerts, alertsCols, record) IN
          /\ alerts' = res.tbl
          /\ supplied' = IF res.out = "ok" THEN Supply("oncology_alerts", record)
                         ELSE supplied
          /\ lastCall' = [routine |-> "_upsert_sqlite", row |-> record, out |-> res.out,
                          before |-> { r \in alerts : r["record_id"] = record["record_id"] }]
    /\ nCalls' = nCalls + 1
    /\ UNCHANGED << focus, recalls, alertsCols >>
    /\ Frame("store")

NextStore == UpsertDfCall \/ UpsertSqliteCall

SpecStore == InitStore /\ [][NextStore]_vars

\* the rows of a table, and the text a supplied value is stored as in it
RowsOf(t) == IF t = "recalls" THEN recalls ELSE alerts
StoredAs(t, c, v) ==
    IF c \in { "publish_date", "scraped_at" } /\ v # None
    THEN isoformat(v, IF t = "recalls" THEN "T" ELSE " ")
    ELSE v

\* C3: in either table every optional field of a stored row is the last
\* non-null value that the upserts of its record_id supplied for the field,
\* or null when they supplied none.
C3_OptionalIsLastNonNull ==
    \A t \in { "recalls", "oncology_alerts" } : \A r \in RowsOf(t) :
        \A c \in OptionalFields \cap DOMAIN r :
            r[c] = StoredAs(t, c, supplied[<< t, r["record_id"] >>].opt[c])

C5_ProvenanceIsLast ==
    /\ \A t \in { "recalls", "oncology_alerts" } : \A r \in RowsOf(t) :
          \A c \in ProvenanceFields : r[c] = supplied[<< t, r["record_id"] >>].prov[c]
    /\ (lastCall.routine = "upsert_df" /\ lastCall.out = "ok") =>
          \E r \in recalls :
              /\ r["record_id"] = lastCall.row["record_id"]
              /\ \A c \in ProvenanceFields : r[c] = lastCall.row[c]

\* C5 witness: an upsert_df call met a stored row of its record_id with
\* another provenance, and the row now has the incoming one
C5_Witness ==
    /\ lastCall.routine = "upsert_df" /\ lastCall.out = "ok"
    /\ \E b \in lastCall.before : \E r \in recalls :
          /\ r["record_id"] = b["record_id"]
          /\ \A c \in ProvenanceFields : b[c] # r[c] /\ r[c] = lastCall.row[c]

-----------------------------------------------------------------------------
(* base.py: make_record_id, and the parts the adapters call it with *)

\* sep.join(strs)
RECURSIVE Join(_, _)
Join(strs, sep) ==
    IF strs = << >> THEN << >>
    ELSE IF Len(strs) = 1 THEN Head(strs)
    ELSE Head(strs) \o sep \o Join(Tail(strs), sep)

\* a datetime object: it has no strip method
IsDatetime(p) == Len(p) = 2 /\ p[1] = "dt"

\* hashlib.sha256(raw).hexdigest(): a digest, one of its own per text
Sha256(raw) == << "sha256" >> \o raw

\* make_record_id(*parts)
make_record_id(parts) ==
    LET kept == SelectSeq(parts, LAMBDA p : p # None) IN
    IF \E i \in 1..Len(kept) : IsDatetime(kept[i]) THEN AttributeError
    ELSE Sha256(Join([i \in 1..Len(kept) |-> Strip(kept[i])], << "|", "|" >>))

\* parts that carry the instant at which the adapter reached the item
PartsWithClock(adapter, item) ==
    IF adapter = "NAFDAC_NG"
    THEN << << adapter >>, item.url, item.publish_date, item.title, item.manufacturer,
            << TimeDigits[clock + 1] >> >>
    ELSE IF adapter = "FDA_US"
    THEN << << adapter >>, item.url, item.publish_date,
            IF item.title = None THEN << >> ELSE item.title,
            IF item.manufacturer = None THEN << >> ELSE item.manufacturer,
            << TimeDigits[clock + 1] >> >>
    ELSE << << adapter >>, item.title, item.url, << TimeDigits[clock + 1] >> >>

\* the parts an adapter passes for a listing item
Parts(adapter, item) ==
    IF adapter = "NAFDAC_NG"
    THEN << << adapter >>, item.url, item.publish_date, item.title, item.manufacturer >>
    ELSE IF adapter = "FDA_US"
    THEN << << adapter >>, item.url, item.publish_date,
            IF item.title = None THEN << >> ELSE item.title,
            IF item.manufacturer = None THEN << >> ELSE item.manufacturer >>
    ELSE << << adapter >>, item.title, item.url >>

-----------------------------------------------------------------------------
(* SpecId: the adapters' calls of make_record_id *)

MaxIdCalls == 2

Adapters == { "NAFDAC_NG", "FDA_US", "HC_CA" }

\* the listing items: detail URL (Health Canada: the identification
\* number), publish date, title (Health Canada: the drug name), manufacturer
Items ==
    [url : { << "u" >> },
     publish_date : { None, << "dt", TimeDigits[1] >> },
     title : { None, << "T" >>, << "T", " " >> },
     manufacturer : { None, << "M" >>, << "T" >> }]

InitId ==
    /\ clock = 0 /\ idLog = {}
    /\ Idle("id")

\* an adapter reaches an item at some later instant and computes its id;
\* the Health Canada adapter skips an item without a drug name
MakeRecordIdCall ==
    /\ Cardinality(idLog) < MaxIdCalls
    /\ \E adapter \in Adapters, item \in Items, now \in 1..MaxTime :
          /\ adapter = "HC_CA" => item.title # None
          /\ clock' = now
          /\ idLog' = idLog \cup { [adapter |-> adapter, item |-> item, now |-> now,
                                     id |-> make_record_id(Parts(adapter, item))] }
    /\ Frame("id")

NextId == MakeRecordIdCall

SpecId == InitId /\ [][NextId]_vars

\* the part list as the specification normalises it: None omitted, a
\* date/time as its ISO-8601 text, anything else stripped
NormalisedParts(parts) ==
    LET kept == SelectSeq(parts, LAMBDA p : p # None) IN
    [i \in 1..Len(kept) |-> IF IsDatetime(kept[i]) THEN isoformat(kept[i], "T")
                            ELSE Strip(kept[i])]

\* C6: every call an adapter makes returns the digest of its normalised
\* parts joined with "||"; a datetime publish_date gives an identifier.
C6_IdOfNormalisedParts ==
    \A e \in idLog :
        e.id = Sha256(Join(NormalisedParts(Parts(e.adapter, e.item)), << "|", "|" >>))

-----------------------------------------------------------------------------
(* main.py: main *)

\* the keyword parameters of BaseScraper.__init__
BaseInitKeywords == { "args", "source_country", "source_org", "timeout" }

\* the keyword arguments of the adapters' DrugAlert(...) constructions
AdapterKwargs ==
    { "record_id", "source_id", "source_org", "source_country", "source_url",
      "publish_date", "manufacturer", "notes", "alert_type", "product_name",
      "scraped_at", "brand_name", "generic_name", "batch_number", "expiry_date",
      "date_of_manufacture" }

\* main(): the adapters are constructed with start_date and standardize
\* their listings, the records become a frame, and the frame is appended
\* to table recalls.  The first step that raises ends the run; nothing is
\* committed then.  items are the (adapter, listing item) pairs of the
\* source content, db the rows of the table, now the instant of the run.
main(db, items, now) ==
    LET ids == { make_record_id(Parts(x[1], x[2])) : x \in items }
        rows == { [c \in DrugAlertFields |->
                      IF c = "record_id" THEN make_record_id(Parts(x[1], x[2]))
                      ELSE IF c = "source_id" THEN << x[1] >>
                      ELSE IF c = "source_url" THEN x[2].url
                      ELSE IF c = "publish_date"
                      THEN (IF x[2].publish_date = None THEN None
                            ELSE isoformat(x[2].publish_date, "T"))
                      ELSE IF c = "scraped_at" THEN isoformat(<< "dt", TimeDigits[now] >>, "T")
                      ELSE IF c = "product_name" THEN x[2].title
                      ELSE None] : x \in items }
    IN  IF ~ ({ "args", "start_date" } \subseteq BaseInitKeywords)
        THEN [out |-> "TypeError", ids |-> {}, db |-> db]
        ELSE IF AttributeError \in ids
        THEN [out |-> "AttributeError", ids |-> ids \ { AttributeError }, db |-> db]
        ELSE IF items # {} /\ ~ (AdapterKwargs \subseteq DrugAlertFields)
        THEN [out |-> "ValidationError", ids |-> ids, db |-> db]
        ELSE IF items # {} /\ ~ (DrugAlertFields \subseteq RecallsColumns)
        THEN [out |-> "OperationalError", ids |-> ids, db |-> db]
        ELSE IF Cardinality(ids) < Cardinality(items)
                    \/ \E r \in db : r["record_id"] \in ids
        THEN [out |-> "IntegrityError", ids |-> ids, db |-> db]
        ELSE [out |-> "ok", ids |-> ids, db |-> db \cup rows]

-----------------------------------------------------------------------------
(* SpecPipeline: runs of main on the same source content *)

MaxRuns == 2
MaxItems == 2

InitPipeline ==
    /\ content \in UNION { { { pick[i] : i \in 1..n } :
                                  pick \in [1..n -> { "FDA_US", "NAFDAC_NG" } \X Items] } :
                              n \in 0..MaxItems }
    /\ mainDb = {}
    /\ runLog = << >>
    /\ Idle("pipeline")

MainRun ==
    /\ Len(runLog) < MaxRuns
    /\ LET res == main(mainDb, content, Len(runLog) + 1) IN
          /\ mainDb' = res.db
          /\ runLog' = Append(runLog, [out |-> res.out, ids |-> res.ids])
    /\ UNCHANGED content
    /\ Frame("pipeline")

NextPipeline == MainRun

SpecPipeline == InitPipeline /\ [][NextPipeline]_vars

\* C1: two runs of main on the same source content compute the same
\* record_ids, the second run completes, and the store then holds exactly
\* one row for each of them.
C1_TwoRunsOneRowPerId ==
    Len(runLog) = 2 =>
        /\ runLog[1].ids = runLog[2].ids
        /\ runLog[2].out = "ok"
        /\ \A id \in runLog[2].ids :
              Cardinality({ r \in mainDb : r["record_id"] = id }) = 1
        /\ Cardinality(runLog[2].ids) = Cardinality(content)

-----------------------------------------------------------------------------
(* utils.py: parse_date *)

ValueError == << "ValueError" >>
IndexError == << "IndexError" >>

DigitSeq == << "0", "1", "2", "3", "4", "5", "6", "7", "8", "9" >>

\* int(s) of a string of digits
ToInt(s) ==
    LET V[i \in 0..Len(s)] ==
            IF i = 0 THEN 0
            ELSE 10 * V[i - 1] + (CHOOSE k \in 0..9 : DigitSeq[k + 1] = s[i])
    IN  V[Len(s)]

\* \d{n} matches the whole of s
AllDigits(s, n) == Len(s) = n /\ \A i \in 1..n : s[i] \in DigitChars

\* s.split(c)
SplitOn(s, c) ==
    LET F[i \in 0..Len(s)] ==
            IF i = 0 THEN << << >> >>
            ELSE IF s[i] = c THEN Append(F[i - 1], << >>)
            ELSE [F[i - 1] EXCEPT ![Len(F[i - 1])] = Append(@, s[i])]
    IN  F[Len(s)]

\* the month names of the C locale, lower case; the abbreviation of a month
\* is the first three letters of its name
MonthNames ==
    << <<"j","a","n","u","a","r","y">>,
       <<"f","e","b","r","u","a","r","y">>,
       <<"m","a","r","c","h">>,
       <<"a","p","r","i","l">>,
       <<"m","a","y">>,
       <<"j","u","n","e">>,
       <<"j","u","l","y">>,
       <<"a","u","g","u","s","t">>,
       <<"s","e","p","t","e","m","b","e","r">>,
       <<"o","c","t","o","b","e","r">>,
       <<"n","o","v","e","m","b","e","r">>,
       <<"d","e","c","e","m","b","e","r">> >>

\* datetime(year, month, day): ValueError unless it is a day of the calendar
datetime(year, month, day) ==
    LET leap == year % 4 = 0 /\ (year % 100 # 0 \/ year % 400 = 0)
        days == IF month = 2 THEN (IF leap THEN 29 ELSE 28)
                ELSE IF month \in { 4, 6, 9, 11 } THEN 30 ELSE 31
        D(n) == DigitSeq[n + 1]
    IN  IF year \in 1..9999 /\ month \in 1..12 /\ day \in 1..days
        THEN << "date", D(year \div 1000), D((year \div 100) % 10), D((year \div 10) % 10),
                D(year % 10), D(month \div 10), D(month % 10), D(day \div 10), D(day % 10) >>
        ELSE ValueError

\* a strptime that takes the two digits of %y for the year itself
strptimeLiteralYear(v, fmt) ==
    LET parts == SplitOn(v, "-")
        Ok(p, dv) ==
            CASE dv = "m" -> (AllDigits(p, 2) \/ AllDigits(p, 1)) /\ ToInt(p) \in 1..12
              [] dv = "d" -> (AllDigits(p, 2) \/ AllDigits(p, 1)) /\ ToInt(p) \in 1..31
              [] dv = "y" -> AllDigits(p, 2)
              [] dv = "Y" -> AllDigits(p, 4)
              [] dv = "b" -> \E k \in 1..12 : Lower(p) = SubSeq(MonthNames[k], 1, 3)
              [] dv = "B" -> \E k \in 1..12 : Lower(p) = MonthNames[k]
    IN  IF Len(parts) # Len(fmt) \/ \E i \in 1..Len(fmt) : ~Ok(parts[i], fmt[i])
        THEN ValueError
        ELSE LET year == ToInt(parts[Len(fmt)])
                 month == CASE fmt[1] = "m" -> ToInt(parts[1])
                            [] fmt[2] = "b" ->
                                 CHOOSE k \in 1..12 : Lower(parts[2]) = SubSeq(MonthNames[k], 1, 3)
                            [] OTHER -> CHOOSE k \in 1..12 : Lower(parts[2]) = MonthNames[k]
                 day == IF fmt[1] = "d" THEN ToInt(parts[1]) ELSE 1
             IN  datetime(year, month, day)

\* datetime.strptime(v, fmt) for the formats parse_date uses, fmt given as
\* its directives: %m-%Y is <<"m","Y">>, %d-%b-%y is <<"d","b","y">>.  The
\* directives match digits and month names only, so the string matches the
\* format when its pieces between the hyphens match the directives one by
\* one: %d and %m one or two digits in range, %y two digits (below 69 the
\* century is 2000, else 1900), %Y four, %b and %B a month name in any case.
strptime(v, fmt) ==
    LET parts == SplitOn(v, "-")
        Ok(p, dv) ==
            CASE dv = "m" -> (AllDigits(p, 2) \/ AllDigits(p, 1)) /\ ToInt(p) \in 1..12
              [] dv = "d" -> (AllDigits(p, 2) \/ AllDigits(p, 1)) /\ ToInt(p) \in 1..31
              [] dv = "y" -> AllDigits(p, 2)
              [] dv = "Y" -> AllDigits(p, 4)
              [] dv = "b" -> \E k \in 1..12 : Lower(p) = SubSeq(MonthNames[k], 1, 3)
              [] dv = "B" -> \E k \in 1..12 : Lower(p) = MonthNames[k]
    IN  IF Len(parts) # Len(fmt) \/ \E i \in 1..Len(fmt) : ~Ok(parts[i], fmt[i])
        THEN ValueError
        ELSE LET yy == ToInt(parts[Len(fmt)])
                 year == IF fmt[Len(fmt)] = "Y" THEN yy
                         ELSE IF yy < 69 THEN 2000 + yy ELSE 1900 + yy
                 month == CASE fmt[1] = "m" -> ToInt(parts[1])
                            [] fmt[2] = "b" ->
                                 CHOOSE k \in 1..12 : Lower(parts[2]) = SubSeq(MonthNames[k], 1, 3)
                            [] OTHER -> CHOOSE k \in 1..12 : Lower(parts[2]) = MonthNames[k]
                 day == IF fmt[1] = "d" THEN ToInt(parts[1]) ELSE 1
             IN  datetime(year, month, day)

\* datetime.fromisoformat(v) on a string without a time part: YYYY-MM-DD,
\* and YYYYMMDD as Python 3.11 reads it
fromisoformat(v) ==
    IF Len(v) = 10 /\ v[5] = "-" /\ v[8] = "-" /\ AllDigits(SubSeq(v, 1, 4), 4)
          /\ AllDigits(SubSeq(v, 6, 7), 2) /\ AllDigits(SubSeq(v, 9, 10), 2)
    THEN datetime(ToInt(SubSeq(v, 1, 4)), ToInt(SubSeq(v, 6, 7)), ToInt(SubSeq(v, 9, 10)))
    ELSE IF AllDigits(v, 8)
    THEN datetime(ToInt(SubSeq(v, 1, 4)), ToInt(SubSeq(v, 5, 6)), ToInt(SubSeq(v, 7, 8)))
    ELSE ValueError

\* the formats of the loop of step 2, in its order
DayMonthYearFormats ==
    << << "d", "b", "y" >>, << "d", "b", "Y" >>, << "d", "B", "y" >>, << "d", "B", "Y" >> >>

\* what step 1 gives: the slashes become hyphens, and strptime runs only on
\* a full match of \d{2}-\d{4}
MonthYear(v) ==
    LET month_year == [i \in 1..Len(v) |-> IF v[i] = "/" THEN "-" ELSE v[i]]
    IN  IF Len(v) = 7 /\ AllDigits(SubSeq(month_year, 1, 2), 2) /\ month_year[3] = "-"
              /\ AllDigits(SubSeq(month_year, 4, 7), 4)
        THEN strptime(month_year, << "m", "Y" >>)
        ELSE ValueError

\* parse_date(value) for a string or None
parse_date(val) ==
    IF val = None \/ val = << >> THEN None
    ELSE LET v == Strip(val)
             hits == { i \in 1..4 : strptime(v, DayMonthYearFormats[i]) # ValueError }
         IN  IF MonthYear(v) # ValueError THEN MonthYear(v)
             ELSE IF hits # {}
                  THEN strptime(v, DayMonthYearFormats[CHOOSE i \in hits : \A j \in hits : i <= j])
             ELSE IF fromisoformat(v) # ValueError THEN fromisoformat(v)
             ELSE None

-----------------------------------------------------------------------------
(* SpecDate: calls of parse_date, direct and from NafDacScraper's record
   assembly *)

\* the strings parse_date is called with: month-year shapes, day-month-year
\* shapes, ISO shapes, and strings of no shape
DateStrings ==
    { m \o << s >> \o y : m \in { <<"0","0">>, <<"0","1">>, <<"1","0">>, <<"1","2">>, <<"1","3">> }, s \in { "-", "/" }, y \in { <<"0","0","0","0">>, <<"2","0","2","0">>, <<"2","0","2","6">> } }
    \cup { d \o << "-" >> \o b \o << "-" >> \o y : d \in { <<"1">>, <<"1","5">>, <<"3","1">>, <<"3","2">>, <<"0","0">> }, b \in { <<"O","c","t">>, <<"O","c","t","o","b","e","r">>, <<"o","c","t">>, <<"F","e","b">>, <<"O","k","t">> }, y \in { <<"2","5">>, <<"2","0","2","5">>, <<"6","9">>, <<"1">> } }
    \cup { y \o << "-" >> \o m \o << "-" >> \o d : y \in { <<"2","0","2","6">>, <<"0","0","0","0">> }, m \in { <<"0","1">>, <<"1","3">>, <<"0","2">> }, d \in { <<"0","9">>, <<"3","0">>, <<"0","0">> } }
    \cup { <<" ">>, <<" ","1","0","-","2","0","2","0"," ">>, <<"a","b","c">>, <<"2","0","2","6","0","1","0","9">>, <<"1","0","-","2","0","2","0","-","0","1">> }

\* the detail-page tables of the adapter's calls: a matrix with an expiry
\* column and no data row, or one data row, and the tables of the two notices
DateTables ==
    { << >>, DarzalexTable, HerceptinTable, << DarzalexTable[1] >> }
    \cup { << DarzalexTable[1], << Td(<< "1" >>), Td(<< "2" >>), Td(x) >> >> :
              x \in { << >>, <<"1","0","-","2","0","2","6">>, <<"1","3","-","2","0","2","6">>, <<"n","/","a">> } }

InitDate ==
    /\ \/ datePc = "direct" /\ value \in DateStrings \cup { None, << >> } /\ dateTable = << >>
       \/ datePc = "nafdac" /\ value = Pending /\ dateTable \in DateTables
    /\ parsed = Pending
    /\ Idle("date")

\* parse_date(value)
ParseDateCall ==
    /\ datePc = "direct"
    /\ datePc' = "done"
    /\ parsed' = parse_date(value)
    /\ UNCHANGED << value, dateTable >>
    /\ Frame("date")

\* nafdac.py 316: parse_date(parsed.get("expiry_date", [None])[0]), parsed
\* holding the mapping of the page's table
NafdacExpiryCall ==
    /\ datePc = "nafdac"
    /\ datePc' = "done"
    /\ LET mapping == parse_nafdac_table(dateTable)
           lst == IF K_expiry_date \in DOMAIN mapping THEN mapping[K_expiry_date]
                  ELSE << None >>
       IN  IF lst = << >>
           THEN parsed' = IndexError /\ UNCHANGED value
           ELSE value' = lst[1] /\ parsed' = parse_date(lst[1])
    /\ UNCHANGED dateTable
    /\ Frame("date")

NextDate == ParseDateCall \/ NafdacExpiryCall

SpecDate == InitDate /\ [][NextDate]_vars

\* the strategies in the order parse_date tries them
Strategies(v) ==
    << MonthYear(v) >> \o [i \in 1..4 |-> strptime(v, DayMonthYearFormats[i])]
        \o << fromisoformat(v) >>

\* C12: parse_date returns what the first strategy that succeeds gives, in
\* the order month-year, %d-%b-%y, %d-%b-%Y, %d-%B-%y, %d-%B-%Y, ISO;
\* "10-2020" and "10/2020" give 2020-10-01, "15-Oct-25" and
\* "15-October-2025" give 2025-10-15, "2026-01-09" gives 2026-01-09.
C12_FirstStrategyWins ==
    (datePc = "done" /\ Truthy(value) /\ value # Pending) =>
        LET s == Strategies(Strip(value))
            ok == { i \in 1..6 : s[i] # ValueError }
        IN  /\ ok # {} => \E i \in ok : (\A j \in ok : i <= j) /\ parsed = s[i]
            /\ value \in { <<"1","0","-","2","0","2","0">>, <<"1","0","/","2","0","2","0">> } => parsed = << "date", "2", "0", "2", "0", "1", "0", "0", "1" >>
            /\ value \in { <<"1","5","-","O","c","t","-","2","5">>, <<"1","5","-","O","c","t","o","b","e","r","-","2","0","2","5">> } => parsed = << "date", "2", "0", "2", "5", "1", "0", "1", "5" >>
            /\ value = <<"2","0","2","6","-","0","1","-","0","9">> => parsed = << "date", "2", "0", "2", "6", "0", "1", "0", "9" >>

\* C12 witness: "10/2020" was parsed, by the month-year strategy only
C12_Witness ==
    /\ datePc = "done" /\ value = <<"1","0","/","2","0","2","0">> /\ parsed = << "date", "2", "0", "2", "0", "1", "0", "0", "1" >>
    /\ fromisoformat(value) = ValueError

\* C13: every call of parse_date, the adapter's included, gives a date or
\* None and raises nothing; a string that fails all strategies, "13-2020"
\* among them, gives None.
C13_TotalAtCallSites ==
    datePc = "done" =>
        /\ parsed = None \/ Head(parsed) = "date"
        /\ (Truthy(value) /\ value # Pending
              /\ \A i \in 1..6 : Strategies(Strip(value))[i] = ValueError) => parsed = None
        /\ value = <<"1","3","-","2","0","2","0">> => parsed = None

\* the direct calls raise nothing
C13_DirectCallsTotal ==
    (datePc = "done" /\ dateTable = << >>) => (parsed = None \/ Head(parsed) = "date")

-----------------------------------------------------------------------------
(* utils.py: the title functions.  A character outside ASCII is written as
   its code point: "U+2013" is the en dash. *)

\* the class [-â€“] of extract_title as the file has it: the hyphen and the
\* three characters U+00E2, U+20AC, U+201C; the en dash is none of them
DashClass == { "-", "U+00E2", "U+20AC", "U+201C" }

IsUpper(c) == c \in Range(UpperChars)
IsLetter(c) == c \in Range(UpperChars) \cup Range(LowerChars)

\* extract_title(title): re.search(r"[-â€“]\s*(.+)", title).group(1) on a
\* title of one line.  The search succeeds at the first character of the
\* class that is not the last character; \s* gives back one space when
\* nothing but spaces follows.
extract_title(title) ==
    IF title = None THEN << "TypeError" >>
    ELSE LET hits == { i \in 1..(Len(title) - 1) : title[i] \in DashClass } IN
         IF hits = {} THEN AttributeError
         ELSE LET i == CHOOSE x \in hits : \A y \in hits : x <= y
                  rest == SubSeq(title, i + 1, Len(title))
              IN  IF LStrip(rest) # << >> THEN LStrip(rest) ELSE << rest[Len(rest)] >>

\* extract_country_from_title(title):
\* re.search(r"\b(?:in)\s+([A-Z][A-Za-z\s]+)$", title.strip())
extract_country_from_title(title) ==
    IF title = None \/ title = << >> THEN None
    ELSE LET t == Strip(title)
             n == Len(t)
             \* the group starts at j when "in" starts at i
             Start(i) == CHOOSE j \in (i + 2)..(n + 1) :
                             /\ j = n + 1 \/ ~IsSpace(t[j])
                             /\ \A k \in (i + 2)..(j - 1) : IsSpace(t[k])
             hits == { i \in 1..(n - 1) :
                          /\ t[i] = "i" /\ t[i + 1] = "n"
                          /\ i = 1 \/ ~IsWord(t[i - 1])
                          /\ Start(i) > i + 2 /\ Start(i) < n
                          /\ IsUpper(t[Start(i)])
                          /\ \A k \in (Start(i) + 1)..n : IsLetter(t[k]) \/ IsSpace(t[k]) }
         IN  IF hits = {} THEN None
             ELSE Strip(SubSeq(t, Start(CHOOSE x \in hits : \A y \in hits : x <= y), n))

\* extract_brand_name_and_generic_name_from_title(title):
\* re.search(r"([A-Z][A-Za-z0-9\-]*)\s*\(([^)]+)\)", title.strip()), the two
\* groups stripped, as << brand, generic >>
extract_brand_name_and_generic_name_from_title(title) ==
    IF title = None \/ title = << >> THEN << None, None >>
    ELSE LET t == Strip(title)
             n == Len(t)
             InName(c) == IsLetter(c) \/ c \in DigitChars \/ c = "-"
             \* the first position from a on whose character P does not hold
             Skip(a, P(_)) == CHOOSE j \in a..(n + 1) :
                                 /\ j = n + 1 \/ ~P(t[j])
                                 /\ \A k \in a..(j - 1) : P(t[k])
             NameEnd(i) == Skip(i + 1, InName)
             Open(i) == Skip(NameEnd(i), IsSpace)
             NotClose(c) == c # ")"
             Close(i) == Skip(Open(i) + 1, NotClose)
             hits == { i \in 1..n :
                          /\ IsUpper(t[i])
                          /\ Open(i) <= n /\ t[Open(i)] = "("
                          /\ Close(i) <= n /\ Close(i) > Open(i) + 1 }
         IN  IF hits = {} THEN << None, None >>
             ELSE LET i == CHOOSE x \in hits : \A y \in hits : x <= y
                  IN  << Strip(SubSeq(t, i, NameEnd(i) - 1)),
                         Strip(SubSeq(t, Open(i) + 1, Close(i) - 1)) >>

-----------------------------------------------------------------------------
(* SpecTitle: NafDacScraper._parse_detail_page decomposes the heading *)

\* the headings of the detail pages: None for a page without <h1>, else a
\* clean_text result built of an optional notice number, an optional
\* separator, a description and an optional country phrase
Headings ==
    { None }
    \cup { clean_text(p \o s \o b \o c) : p \in { << >>, <<"P","u","b","l","i","c"," ","A","l","e","r","t"," ","N","o","."," ","1">> }, s \in { << >>, <<" ","-"," ">>, <<" ","U+2013"," ">>, <<"-">> }, b \in { <<"R","e","c","a","l","l"," ","o","f"," ","A","v","a","s","t","i","n"," ","(","B","e","v","a","c","i","z","u","m","a","b",")">>, <<"A","v","a","s","t","i","n","(","B","e","v","a","c","i","z","u","m","a","b",")"," ","5","m","g">>, <<"F","a","l","s","i","f","i","e","d"," ","m","e","d","i","c","i","n","e">>, <<"(",")">> }, c \in { << >>, <<" ","i","n"," ","N","i","g","e","r","i","a">>, <<" ","i","n"," ","S","o","u","t","h"," ","A","f","r","i","c","a">>, <<" ","i","n"," ","n","i","g","e","r","i","a">>, <<" ","i","n"," ","N","i","g","e","r","i","a"," ","2">> } }

InitTitle ==
    /\ heading \in Headings
    /\ titlePc = "call" /\ decomposed = << >>
    /\ Idle("title")

\* nafdac.py 328-334: title = select_one_text(soup, "h1"); title =
\* extract_title(title); then the country and the names from the new title.
\* An exception of extract_title leaves _parse_detail_page.
ParseHeadingCall ==
    /\ titlePc = "call"
    /\ titlePc' = "done"
    /\ LET title == extract_title(heading)
           names == extract_brand_name_and_generic_name_from_title(title)
       IN  IF title \in { << "TypeError" >>, AttributeError }
           THEN decomposed' = [out |-> title[1], title |-> None, source_country |-> None,
                               brand_name |-> None, generic_name |-> None]
           ELSE decomposed' = [out |-> "ok", title |-> title,
                               source_country |-> extract_country_from_title(title),
                               brand_name |-> names[1], generic_name |-> names[2]]
    /\ UNCHANGED heading
    /\ Frame("title")

NextTitle == ParseHeadingCall

SpecTitle == InitTitle /\ [][NextTitle]_vars

\* C14: decomposing a heading never raises: for every heading, None and one
\* without a separator included, the title, the names and the country are
\* each a value or None and _parse_detail_page goes on.
C14_DecomposerNeverRaises ==
    titlePc = "done" => decomposed.out = "ok"

\* with a hyphen in the heading the three extractions do give a value or None
C14_HyphenDecomposed ==
    (titlePc = "done" /\ heading # None
        /\ \E i \in 1..(Len(heading) - 1) : heading[i] = "-") => decomposed.out = "ok"

-----------------------------------------------------------------------------
(* The adapters' enumeration of a listing: NafDacScraper._parse_listing_page,
   FDAUSAScraper.standardize of fdausa.py and of fda_usa.py,
   HealthCanadaScraper.standardize.  The scraper object holds the cutoff in
   its attribute start_date.  A listing item is its detail URL, the place of
   its publish date in time (0: the date is missing or does not parse), drug:
   the listing row is of the kind the adapter keeps (NAFDAC: category drug;
   Health Canada: a health-product recall with a name), oncology: the page
   passes the oncology filter, fetch: how the request for the detail page ends.
   The detail pages have a heading that extract_title accepts. *)

\* self.start_date, as a place in time
CutoffDate == 2

\* the keyword arguments of an adapter's DrugAlert(...) construction
RecordKwargs(a) ==
    IF a \in { "NAFDAC_NG", "FDA_US" } THEN AdapterKwargs
    ELSE IF a = "HC_CA"
    THEN { "record_id", "source_id", "source_org", "source_country", "source_url",
           "publish_date", "manufacturer", "distributor", "reason", "more_info",
           "product_name", "scraped_at" }
    ELSE { "record_id", "source_id", "source_country", "source_org", "source_url",
           "title", "publish_date", "manufacturer_stated", "manufactured_for",
           "therapeutic_category", "reason", "alert_type", "notes", "body_text",
           "scraped_at" }

\* the fields of DrugAlert without a default
DrugAlertRequired ==
    { "record_id", "source_id", "source_country", "source_org", "source_url",
      "scraped_at", "product_name" }

\* the record id and the DrugAlert of an item: "ok", or the exception that
\* make_record_id or the validation of the keyword arguments raises.  The
\* Health Canada adapter first calls self.get_nci_name, which no class has.
NewRecord(a, it) ==
    LET item == [url |-> << it.url >>,
                 publish_date |-> IF it.date = 0 THEN None ELSE << "dt", TimeDigits[it.date] >>,
                 title |-> << "T" >>, manufacturer |-> << "M" >>]
    IN  IF a = "HC_CA" THEN "AttributeError"
        ELSE IF a # "FDA_US_HTML" /\ make_record_id(Parts(a, item)) = AttributeError
        THEN "AttributeError"
        ELSE IF ~ (RecordKwargs(a) \subseteq DrugAlertFields)
                   \/ ~ (DrugAlertRequired \subseteq RecordKwargs(a))
        THEN "ValidationError"
        ELSE "ok"

\* the end of every loop body: the record of item i is assembled and appended
AppendRecord(a, s, it, i) ==
    IF NewRecord(a, it) = "ok"
    THEN [s EXCEPT !.reached = Append(@, i), !.results = Append(@, i)]
    ELSE [s EXCEPT !.reached = Append(@, i), !.out = NewRecord(a, it)]

\* self.scrape(url): the page is requested; raise_for_status raises
Scrape(s, it) ==
    [s EXCEPT !.fetched = Append(@, it.url),
              !.out = IF it.fetch = "fail" THEN "HTTPError" ELSE @]

\* the default of filters.get("oncology_keywords") or [...]
DefaultKeywords == << <<"o","n","c","o","l","o","g","y">>, <<"c","a","n","c","e","r">> >>

\* a filter that lets every page pass
is_oncologyAlways(body_text) == TRUE

\* _is_oncology(body_text), the same code in nafdac.py, fdausa.py and
\* fda_usa.py; an absent key of the filters is "unset", an absent text None
is_oncology(body_text) ==
    IF filters.require_oncology # "True" THEN TRUE
    ELSE LET keywords == IF filters.oncology_keywords = << >> THEN DefaultKeywords
                         ELSE filters.oncology_keywords
             hay == Lower(IF body_text = None THEN << >> ELSE body_text)
         IN  \E i \in 1..Len(keywords) : Contains(hay, Lower(keywords[i]))

\* one pass of the loop of NafDacScraper._parse_listing_page
nafdac_row(s, it, i) ==
    IF ~it.drug THEN s
    ELSE LET s1 == Scrape(s, it) IN
         IF s1.out # "ok" THEN s1
         ELSE IF ~is_oncology(it.body) THEN s1
         ELSE IF CutoffDate # 0 /\ it.date # 0 /\ CutoffDate > it.date
         THEN [s1 EXCEPT !.stopped = TRUE]
         ELSE AppendRecord("NAFDAC_NG", s1, it, i)

\* one pass of the loop of FDAUSAScraper.standardize (fdausa.py)
fdausa_row(s, it, i) ==
    LET s1 == Scrape(s, it) IN
    IF s1.out # "ok" THEN s1
    ELSE IF CutoffDate # 0 /\ it.date # 0 /\ it.date < CutoffDate
    THEN [s1 EXCEPT !.stopped = TRUE]
    ELSE IF ~is_oncology(it.body) THEN s1
    ELSE AppendRecord("FDA_US", s1, it, i)

\* a loop body without the comparison with start_date
healthcanada_recNoCutoff(s, it, i) ==
    IF ~it.drug THEN s ELSE AppendRecord("HC_CA", s, it, i)

\* one pass of the loop of HealthCanadaScraper.standardize: the feed holds
\* the records, no page is requested for one of them
healthcanada_rec(s, it, i) ==
    IF ~it.drug THEN s
    ELSE IF CutoffDate # 0 /\ it.date # 0 /\ it.date < CutoffDate THEN s
    ELSE AppendRecord("HC_CA", s, it, i)

\* one pass of the inner loop of FDAUSAScraper.standardize (fda_usa.py): an
\* item whose URL an earlier item of the listing has was dropped by
\* _parse_listing_page
fda_usa_item(s, it, i) ==
    IF it.url \in Range(s.fetched) THEN s
    ELSE LET s1 == Scrape(s, it) IN
         IF s1.out # "ok" THEN s1
         ELSE IF ~is_oncology(it.body) THEN s1
         ELSE AppendRecord("FDA_US_HTML", s1, it, i)

\* standardize(): the loop over the items; an exception or a break ends it,
\* and an exception leaves standardize without a result
standardize(a, items) ==
    LET F[i \in 0..Len(items)] ==
            IF i = 0
            THEN [out |-> "ok", stopped |-> FALSE, fetched |-> << >>,
                  reached |-> << >>, results |-> << >>]
            ELSE IF F[i - 1].out # "ok" \/ F[i - 1].stopped THEN F[i - 1]
            ELSE CASE a = "NAFDAC_NG" -> nafdac_row(F[i - 1], items[i], i)
                   [] a = "FDA_US" -> fdausa_row(F[i - 1], items[i], i)
                   [] a = "HC_CA" -> healthcanada_rec(F[i - 1], items[i], i)
                   [] OTHER -> fda_usa_item(F[i - 1], items[i], i)
        end == F[Len(items)]
    IN  IF end.out = "ok" THEN end ELSE [end EXCEPT !.results = << >>]

-----------------------------------------------------------------------------
(* SpecListing: one adapter enumerates one listing *)

MaxListing == 3

\* the body texts of the detail pages
CANCER_BODY == <<"B","r","e","a","s","t"," ","C","a","n","c","e","r">>
COUGH_BODY == <<"C","o","u","g","h"," ","s","y","r","u","p">>

\* the filters of the adapter's configuration: none, the filter switched
\* off, the filter with the default keywords and with keywords of its own
FilterConfigs ==
    { [require_oncology |-> "unset", oncology_keywords |-> << >>],
      [require_oncology |-> "False", oncology_keywords |-> << <<"c","o","u","g","h">> >>],
      [require_oncology |-> "True", oncology_keywords |-> << >>],
      [require_oncology |-> "True", oncology_keywords |-> << <<"T","u","m","o","u","r">>, <<"S","Y","R","U","P">> >>] }

\* the listing items; what the adapter never looks at does not vary
ListingItems ==
    { it \in [url : { "u1", "u2" }, date : 0..2, drug : BOOLEAN,
              body : { CANCER_BODY, COUGH_BODY }, fetch : { "ok", "fail" }] :
        /\ ~it.drug => (it.fetch = "ok" /\ it.body = COUGH_BODY)
        /\ it.fetch = "fail" => it.body = COUGH_BODY }

InitListing ==
    /\ scraper \in Adapters \cup { "FDA_US_HTML" }
    /\ filters \in FilterConfigs
    /\ listing \in UNION { [1..n -> ListingItems] : n \in 0..MaxListing }
    /\ enumPc = "call" /\ enumOut = << >>
    /\ Idle("listing")

StandardizeCall ==
    /\ enumPc = "call"
    /\ enumPc' = "done"
    /\ enumOut' = standardize(scraper, listing)
    /\ UNCHANGED << scraper, filters, listing >>
    /\ Frame("listing")

NextListing == StandardizeCall

SpecListing == InitListing /\ [][NextListing]_vars

\* the place in the listing of the first item whose publish date is before
\* the cutoff, 0 when there is none
FirstBeforeCutoff ==
    LET S == { i \in 1..Len(listing) : listing[i].date # 0 /\ listing[i].date < CutoffDate }
    IN  IF S = {} THEN 0 ELSE CHOOSE i \in S : \A j \in S : i <= j

\* C15: the enumeration stops at the first item of the listing whose
\* publish date is before start_date, whether or not that item passes the
\* oncology filter: no record is assembled for that item or for a later one.
C15_StopsAtCutoff ==
    (enumPc = "done" /\ FirstBeforeCutoff # 0) =>
        \A k \in Range(enumOut.reached) : k < FirstBeforeCutoff

\* the adapter of fdausa.py does stop there
C15_FdaStopsAtCutoff ==
    (enumPc = "done" /\ FirstBeforeCutoff # 0 /\ scraper = "FDA_US") =>
        \A k \in Range(enumOut.reached) : k < FirstBeforeCutoff

\* C16: in one run no detail URL is fetched twice, and at most one record
\* is assembled for a detail URL.
C16_NoDetailUrlTwice ==
    enumPc = "done" =>
        /\ \A i, j \in 1..Len(enumOut.fetched) :
              i # j => enumOut.fetched[i] # enumOut.fetched[j]
        /\ \A i, j \in Range(enumOut.reached) :
              i # j => listing[i].url # listing[j].url

\* the adapter of fda_usa.py does drop the repeated URLs of its listing
C16_HtmlListingDeduped ==
    (enumPc = "done" /\ scraper = "FDA_US_HTML") =>
        \A i, j \in 1..Len(enumOut.fetched) : i # j => enumOut.fetched[i] # enumOut.fetched[j]

\* C17: a detail page that cannot be fetched ends the processing of that
\* page only: standardize does not raise the failure, and the records
\* assembled for the other pages are returned for the run to persist.
C17_FailureAbortsOnlyThatPage ==
    (enumPc = "done"
        /\ \E i \in 1..Len(listing) :
              listing[i].fetch = "fail" /\ listing[i].url \in Range(enumOut.fetched)) =>
        /\ enumOut.out # "HTTPError"
        /\ Len(enumOut.results) = Len(enumOut.reached)

\* C18: every keyword an adapter passes when it constructs a record is a
\* field of DrugAlert and a column of table recalls, and DrugAlert requires
\* the record id, the provenance fields and scraped_at only.
C18_SchemaIsUnionOfFields ==
    (enumPc = "done" /\ enumOut.reached # << >>) =>
        /\ RecordKwargs(scraper) \subseteq DrugAlertFields
        /\ RecordKwargs(scraper) \subseteq RecallsColumns
        /\ DrugAlertRequired \subseteq ProvenanceFields \cup { "record_id", "scraped_at" }

-----------------------------------------------------------------------------
(* fdausa.py: _parse_fda_usa_table *)

K_ndc == << "n", "d", "c" >>

\* NDC_RE.match(v): ^\d{4,5}-\d{3,4}-\d{1,2}$
IsNdc(v) ==
    LET p == SplitOn(v, "-") IN
    /\ Len(p) = 3
    /\ AllDigits(p[1], 4) \/ AllDigits(p[1], 5)
    /\ AllDigits(p[2], 3) \/ AllDigits(p[2], 4)
    /\ AllDigits(p[3], 1) \/ AllDigits(p[3], 2)

\* DATE_RE.match(v): ^\d{1,2}/\d{1,2}/\d{2,4}$|^\d{1,2}/\d{4}$
IsDateLike(v) ==
    LET p == SplitOn(v, "/") IN
    \/ /\ Len(p) = 3
       /\ AllDigits(p[1], 1) \/ AllDigits(p[1], 2)
       /\ AllDigits(p[2], 1) \/ AllDigits(p[2], 2)
       /\ \E n \in 2..4 : AllDigits(p[3], n)
    \/ /\ Len(p) = 2
       /\ AllDigits(p[1], 1) \/ AllDigits(p[1], 2)
       /\ AllDigits(p[2], 4)

\* looks_like_product(val)
looks_like_product(val) ==
    LET v == Strip(val) IN
    \/ Len(v) > 25
    \/ "\n" \in Range(v)
    \/ Contains(Lower(v), << "m", "g" >>)
    \/ Contains(Lower(v), << "c", "a", "p", "s", "u", "l", "e" >>)

\* detect_col_type(col_values), the values not empty
detect_col_type(col_values) ==
    LET n == Len(col_values)
        Count(P(_)) == Cardinality({ i \in 1..n : P(Strip(col_values[i])) })
    IN  IF n = 0 THEN << "u", "n", "k", "n", "o", "w", "n" >>
        ELSE IF 2 * Count(looks_like_product) >= n THEN K_product_name
        ELSE IF 2 * Count(IsNdc) >= n THEN K_ndc
        ELSE IF 2 * Count(IsDateLike) >= n THEN K_expiry_date
        ELSE K_batch_number

\* _parse_fda_usa_table(table): the values of every column of the grid, row
\* 0 included, go to the key of the column's detected type; columns of one
\* type are joined in column order
parse_fda_usa_table(tbl) ==
    LET rows == table_to_grid(tbl) IN
    IF rows = << >> THEN EmptyDict
    ELSE LET ncols == Len(rows[1])
             cols == [c \in 1..ncols |->
                         LET F[i \in 0..Len(rows)] ==
                                 IF i = 0 THEN << >>
                                 ELSE F[i - 1] \o (IF Strip(rows[i][c]) # << >>
                                                   THEN << Strip(rows[i][c]) >> ELSE << >>)
                         IN  F[Len(rows)]]
             keys == { detect_col_type(cols[c]) : c \in { x \in 1..ncols : cols[x] # << >> } }
             Ext[c \in 0..ncols, k \in keys] ==
                 IF c = 0 THEN << >>
                 ELSE Ext[c - 1, k] \o (IF cols[c] # << >> /\ detect_col_type(cols[c]) = k
                                        THEN cols[c] ELSE << >>)
         IN  [k \in keys |-> Ext[ncols, k]]

-----------------------------------------------------------------------------
(* SpecFda: calls of _parse_fda_usa_table *)

MaxFdaRows == 2

\* the texts of the cells of column j of the recall tables: product, NDC,
\* lot, expiry; a cell may be empty
FdaCellTexts(j) ==
    CASE j = 1 -> { << >>, <<"P","R","O","G","R","A","F"," ","0",".","5"," ","m","g"," ","c","a","p","s","u","l","e","s">> }
      [] j = 2 -> { << >>, <<"0","4","6","9","-","0","6","0","7","-","7","3">>, <<"0","4","6","9","-","0","6","4","7","-","7","3">> }
      [] j = 3 -> { << >>, <<"0","E","3","3","5","3","D">>, <<"0","R","3","0","9","2","A">> }
      [] OTHER -> { << >>, <<"0","3","/","2","0","2","6">>, <<"1","/","2","/","2","6">> }

\* the tables: product | NDC | lot | expiry, of one row to MaxFdaRows rows
RECURSIVE FdaTables(_)
FdaTables(m) ==
    IF m = 0 THEN { << >> }
    ELSE { Append(t, [j \in 1..4 |-> Td(txt[j])]) :
              t \in FdaTables(m - 1),
              txt \in { f \in [1..4 -> UNION { FdaCellTexts(j) : j \in 1..4 }] :
                            \A j \in 1..4 : f[j] \in FdaCellTexts(j) } }

InitFda ==
    /\ specTable \in UNION { FdaTables(m) : m \in 0..MaxFdaRows }
    /\ specPc = "call" /\ specs = << >>
    /\ Idle("table")

ParseFdaTableCall ==
    /\ specPc = "call"
    /\ specPc' = "done"
    /\ specs' = parse_fda_usa_table(specTable)
    /\ UNCHANGED specTable
    /\ Frame("table")

NextFda == ParseFdaTableCall

SpecFda == InitFda /\ [][NextFda]_vars

\* the values of column c of the grid that are not empty, row 0 included
WholeColumn(rows, c) ==
    LET F[i \in 0..Len(rows)] ==
            IF i = 0 THEN << >>
            ELSE F[i - 1] \o (IF rows[i][c] # << >> THEN << rows[i][c] >> ELSE << >>)
    IN  F[Len(rows)]

\* C19: for a table with a column of NDC codes the mapping has no key
\* "ndc": its keys are among product_name, batch_number and expiry_date,
\* and batch_number and expiry_date hold the lots and the expiry values of
\* the table in row order.
C19_NdcColumnIgnored ==
    (specPc = "done" /\ SpecGridOf # << >>
        /\ WholeColumn(SpecGridOf, 2) # << >>
        /\ \A i \in 1..Len(WholeColumn(SpecGridOf, 2)) : IsNdc(WholeColumn(SpecGridOf, 2)[i])) =>
        /\ K_ndc \notin DOMAIN specs
        /\ DOMAIN specs \subseteq { K_product_name, K_batch_number, K_expiry_date }
        /\ WholeColumn(SpecGridOf, 3) # << >> =>
              (K_batch_number \in DOMAIN specs
                  /\ specs[K_batch_number] = WholeColumn(SpecGridOf, 3))
        /\ WholeColumn(SpecGridOf, 4) # << >> =>
              (K_expiry_date \in DOMAIN specs
                  /\ specs[K_expiry_date] = WholeColumn(SpecGridOf, 4))

\* without a column of NDC codes the lots and the expiry values are
\* classified as the claim says
C19_LotsAndExpiries ==
    (specPc = "done" /\ SpecGridOf # << >> /\ WholeColumn(SpecGridOf, 2) = << >>) =>
        /\ WholeColumn(SpecGridOf, 3) # << >> =>
              specs[K_batch_number] = WholeColumn(SpecGridOf, 3)
        /\ WholeColumn(SpecGridOf, 4) # << >> =>
              specs[K_expiry_date] = WholeColumn(SpecGridOf, 4)

-----------------------------------------------------------------------------
(* nafdac.py: _extract_product_specs *)

\* a loop that does not return at the first truthy mapping: the mapping of
\* a later table replaces the one of an earlier table
RECURSIVE extract_product_specsLastTable(_)
extract_product_specsLastTable(tables) ==
    IF tables = << >> THEN EmptyDict
    ELSE LET later == extract_product_specsLastTable(Tail(tables)) IN
         IF later # EmptyDict THEN later ELSE parse_nafdac_table(Head(tables))

\* _extract_product_specs(soup): the first table in document order whose
\* mapping is truthy (a dict with a key), else {}
RECURSIVE extract_product_specs(_)
extract_product_specs(tables) ==
    IF tables = << >> THEN EmptyDict
    ELSE LET parsed_table == parse_nafdac_table(Head(tables)) IN
         IF parsed_table # EmptyDict THEN parsed_table
         ELSE extract_product_specs(Tail(tables))

-----------------------------------------------------------------------------
(* SpecPage: calls of _extract_product_specs *)

MaxTables == 3

TableKinds ==
    { "norows", "blank", "onecolumn", "pairs", "pairsnovalue", "matrix", "headeronly" }

\* the table of a kind whose values are the text v
PageTable(kind, v) ==
    CASE kind = "norows" -> << >>
      [] kind = "blank" -> << << Td(<< >>), Td(<< >>) >> >>
      [] kind = "onecolumn" -> << << Td(BATCH_NUMBER_CAP) >>, << Td(v) >> >>
      [] kind = "pairs" -> << << Td(PRODUCT_NAME_UP), Td(v) >>,
                              << Td(BATCH_NO_DOT), Td(v) >> >>
      [] kind = "pairsnovalue" -> << << Td(BATCH_NUMBER_CAP), Td(<< >>) >> >>
      [] kind = "matrix" ->
             << << Td(PRODUCT_NAME_UP), Td(BATCH_NUMBER_CAP), Td(<< >>) >>,
                << Td(v), Td(v), Td(v) >> >>
      [] OTHER ->
             << << Td(PRODUCT_NAME_UP), Td(BATCH_NUMBER_CAP), Td(<< >>) >> >>

\* pages of no table to MaxTables tables; the i-th table's values are the
\* i-th value letter
PagesOfLen(n) ==
    { [i \in 1..n |-> PageTable(kinds[i], << ValueLetters[i] >>)] :
          kinds \in [1..n -> TableKinds] }

InitPage ==
    /\ pageTables \in UNION { PagesOfLen(n) : n \in 0..MaxTables }
    /\ pagePc = "call" /\ pageSpecs = << >>
    /\ Idle("page")

ExtractProductSpecsCall ==
    /\ pagePc = "call"
    /\ pagePc' = "done"
    /\ pageSpecs' = extract_product_specs(pageTables)
    /\ UNCHANGED pageTables
    /\ Frame("page")

NextPage == ExtractProductSpecsCall

SpecPage == InitPage /\ [][NextPage]_vars

\* the table yields nothing: it has no row with a text, or one column
YieldsNothing(tbl) ==
    \/ table_to_grid(tbl) = << >>
    \/ Len(table_to_grid(tbl)[1]) = 1

\* the tables of the page whose mapping is not empty
Yielding == { i \in 1..Len(pageTables) : parse_nafdac_table(pageTables[i]) # EmptyDict }

\* the texts of the cells of a table
TextsOf(tbl) == { tbl[r][j].text : r \in 1..Len(tbl), j \in 1..2 } \cup
                { tbl[r][j].text : r \in { x \in 1..Len(tbl) : Len(tbl[x]) = 3 }, j \in 1..3 }

\* C20: the tables of a page are tried in document order and the result is
\* the mapping of the first table with a non-empty mapping (the empty
\* mapping when there is none); a table of one column or without rows is
\* never the chosen one and never stops the search, and every value of the
\* result is a text of the chosen table.
C20_FirstYieldingTableWins ==
    pagePc = "done" =>
        /\ Yielding = {} => pageSpecs = EmptyDict
        /\ Yielding # {} =>
              \E i \in Yielding :
                  /\ \A j \in Yielding : i <= j
                  /\ ~YieldsNothing(pageTables[i])
                  /\ pageSpecs = parse_nafdac_table(pageTables[i])
                  /\ \A k \in DOMAIN pageSpecs :
                        Range(pageSpecs[k]) \subseteq TextsOf(pageTables[i])
        /\ \A i \in 1..Len(pageTables) :
              YieldsNothing(pageTables[i]) => i \notin Yielding

\* a page whose first table has one column, whose second table yields a
\* mapping, and whose third table yields another one
C20_Witness ==
    /\ pagePc = "done"
    /\ Len(pageTables) = 3
    /\ YieldsNothing(pageTables[1])
    /\ Yielding = { 2, 3 }
    /\ pageSpecs = parse_nafdac_table(pageTables[2])
    /\ pageSpecs # parse_nafdac_table(pageTables[3])
    /\ \E k \in DOMAIN pageSpecs : pageSpecs[k] # << >>

-----------------------------------------------------------------------------
(* nafdac.py: _extract_product_specs_from_text *)

K_manufacturing_date == <<"m","a","n","u","f","a","c","t","u","r","i","n","g","_","d","a","t","e">>

\* LABEL_MAP
LABEL_MAP ==
    << << <<"p","r","o","d","u","c","t"," ","n","a","m","e">>, K_product_name >>,
       << <<"b","a","t","c","h"," ","n","o">>, K_batch_number >>,
       << <<"e","x","p","i","r","y"," ","d","a","t","e">>, K_expiry_date >>,
       << <<"m","a","n","u","f","a","c","t","u","r","i","n","g"," ","d","a","t","e">>, K_manufacturing_date >>,
       << <<"s","t","a","t","e","d"," ","m","a","n","u","f","a","c","t","u","r","e","r">>, K_stated_manufacturer >> >>

\* LABEL_MAP[label], None when label is not in LABEL_MAP
LabelKey(lbl) ==
    IF \E i \in 1..Len(LABEL_MAP) : LABEL_MAP[i][1] = lbl
    THEN LABEL_MAP[CHOOSE i \in 1..Len(LABEL_MAP) : LABEL_MAP[i][1] = lbl][2]
    ELSE None

\* the key one <strong> contributes to, None when the loop says continue:
\* strong.get_text(" ", strip=True).rstrip(":").lower() in LABEL_MAP, a next
\* sibling, and a text left of it after strip
StrongKey(node) ==
    LET lbl == Lower(RStripColon(Strip(node.text))) IN
    IF LabelKey(lbl) = None THEN None
    ELSE IF node.sibling = None \/ node.sibling = << >> THEN None
    ELSE IF Strip(node.sibling) = << >> THEN None
    ELSE LabelKey(lbl)

\* _extract_product_specs_from_text(soup): result.setdefault(key, []).append(value)
\* for the <strong> elements in document order
extract_product_specs_from_text(nodes) ==
    LET keys == { StrongKey(nodes[i]) : i \in 1..Len(nodes) } \ { None }
        App[i \in 0..Len(nodes), k \in keys] ==
            IF i = 0 THEN << >>
            ELSE App[i - 1, k] \o (IF StrongKey(nodes[i]) = k
                                   THEN << Strip(nodes[i].sibling) >> ELSE << >>)
    IN  [k \in keys |-> App[Len(nodes), k]]

-----------------------------------------------------------------------------
(* SpecText: calls of _extract_product_specs_from_text *)

MaxStrongs == 2

\* the texts of the bold elements: labels of LABEL_MAP, spellings that only
\* the synonym table of normalize_key has, and bold text that is no label
StrongTexts ==
    { <<"P","r","o","d","u","c","t"," ","N","a","m","e",":">>, <<"B","a","t","c","h"," ","N","o",":">>, <<"B","a","t","c","h"," ","N","u","m","b","e","r",":">>, <<"L","o","t"," ","N","o">>, <<"E","x","p","i","r","y"," ","D","a","t","e">>, <<"M","a","n","u","f","a","c","t","u","r","i","n","g"," ","D","a","t","e",":">>, <<"S","t","a","t","e","d"," ","M","a","n","u","f","a","c","t","u","r","e","r">>, <<"R","e","m","a","r","k","s">>, <<"N","O","T","E",":">> }

\* the i-th <strong> of a page: its next sibling is missing or a text of
\* its own
StrongsAt(i) ==
    [text : StrongTexts, sibling : { None, << " ", ValueLetters[i] >> }]

InitText ==
    /\ \E n \in 0..MaxStrongs :
          strongs \in { s \in [1..n -> UNION { StrongsAt(i) : i \in 1..n }] :
                            \A i \in 1..n : s[i] \in StrongsAt(i) }
    /\ textPc = "call" /\ textSpecs = << >>
    /\ Idle("text")

ExtractFromTextCall ==
    /\ textPc = "call"
    /\ textPc' = "done"
    /\ textSpecs' = extract_product_specs_from_text(strongs)
    /\ UNCHANGED strongs
    /\ Frame("text")

NextText == ExtractFromTextCall

SpecText == InitText /\ [][NextText]_vars

\* the values of the mapping
TextValues == UNION { Range(textSpecs[k]) : k \in DOMAIN textSpecs }

\* C21: the key of every bold label with a value is the key normalize_key
\* gives for the label in return-none mode, so the keys are those of the
\* table classifier, and bold text normalize_key does not recognise
\* contributes nothing.
C21_SameKeysAsNormalizer ==
    textPc = "done" =>
        /\ DOMAIN textSpecs \subseteq CanonicalKeys
        /\ \A i \in 1..Len(strongs) :
              strongs[i].sibling # None =>
                  LET k == normalize_key(strongs[i].text, TRUE)
                      v == Strip(strongs[i].sibling)
                  IN  IF k = None THEN v \notin TextValues
                      ELSE k \in DOMAIN textSpecs /\ v \in Range(textSpecs[k])

\* the labels both tables know get the key of normalize_key
C21_SharedLabelsAgree ==
    textPc = "done" =>
        \A k \in DOMAIN textSpecs \cap CanonicalKeys :
            \A i \in 1..Len(strongs) :
                StrongKey(strongs[i]) = k => normalize_key(strongs[i].text, TRUE) = k

-----------------------------------------------------------------------------
(* table_to_grid: the shape of the grid *)

\* C22: the grid is rectangular: every row has ncols cells, ncols the
\* largest sum of colspans of a row of the table, and a cell with colspan w
\* that the loop placed at column c has its text in the columns c..c+w-1 of
\* its row, as far as the row reaches.
C22_Rectangular ==
    gridPc = "done" =>
        /\ \A i \in 1..Len(grid) :
              /\ Len(grid[i]) = MaxWidth(table)
              /\ \E r \in 1..Len(table) : row_width(table[r]) = Len(grid[i])
              /\ \A r \in 1..Len(table) : row_width(table[r]) <= Len(grid[i])
        /\ \A p \in gridLog.placed :
              \A c \in p.col..Min(p.col + p.cell.colspan - 1, MaxWidth(table)) :
                  gridLog.raw[p.r][c] = OrEmpty(cell_text(p.cell))

\* a two-row grid with a cell of colspan 2 whose text is in two columns, and
\* a cell of colspan 2 in the last column that is cut at the right edge
C22_Witness ==
    /\ gridPc = "done"
    /\ Len(grid) = 2
    /\ \E p \in gridLog.placed :
          /\ p.cell.colspan = 2 /\ p.cell.text # << >>
          /\ p.col + 1 <= MaxWidth(table)
          /\ grid[p.r][p.col] = p.cell.text /\ grid[p.r][p.col + 1] = p.cell.text
    /\ \E p \in gridLog.placed :
          /\ p.cell.colspan = 2 /\ p.cell.text # << >>
          /\ p.col = MaxWidth(table)
          /\ grid[p.r][p.col] = p.cell.text

\* C23: every row of the grid has a non-empty cell: the rows that are empty
\* after the expansion are dropped, the other rows stay in their order, and
\* a table without rows or of width zero gives the empty grid.
C23_NoEmptyRows ==
    gridPc = "done" =>
        /\ \A i \in 1..Len(grid) : \E c \in 1..Len(grid[i]) : grid[i][c] # << >>
        /\ IsSubseq(grid, gridLog.raw)
        /\ Len(grid) = Cardinality({ i \in 1..Len(gridLog.raw) : AnyCell(gridLog.raw[i]) })
        /\ (table = << >> \/ \A r \in 1..Len(table) : table[r] = << >>) => grid = << >>

\* a table whose first row is empty after the expansion and whose second
\* row is not: the grid is the second row
C23_Witness ==
    /\ gridPc = "done"
    /\ Len(gridLog.raw) = 2
    /\ ~AnyCell(gridLog.raw[1]) /\ AnyCell(gridLog.raw[2])
    /\ grid = << gridLog.raw[2] >>

-----------------------------------------------------------------------------
(* the oncology filter and the cutoff in the enumeration *)

\* the adapters that request a detail page for every listing item
DetailPageAdapters == { "NAFDAC_NG", "FDA_US", "FDA_US_HTML" }

\* the filter as the configuration states it: no filter required, or a
\* configured keyword (by default oncology, cancer) in the lower-cased text
PassesFilter(it) ==
    \/ filters.require_oncology \in { "unset", "False" }
    \/ \E kw \in (IF filters.oncology_keywords = << >> THEN Range(DefaultKeywords)
                  ELSE Range(filters.oncology_keywords)) :
           Contains(Lower(it.body), Lower(kw))

C25_NoRecordBeforeCutoff ==
    (enumPc = "done" /\ scraper \in Adapters) =>
        \A k \in Range(enumOut.reached) \cup Range(enumOut.results) :
            listing[k].date = 0 \/ listing[k].date >= CutoffDate

\* a listing in ascending date order: the item before the cutoff comes
\* first and gives no record, the later item's record is assembled
C25_Witness ==
    /\ enumPc = "done" /\ scraper \in Adapters
    /\ \E i, j \in 1..Len(listing) :
          /\ i < j
          /\ listing[i].drug /\ listing[i].date # 0 /\ listing[i].date < CutoffDate
          /\ listing[j].date >= CutoffDate
          /\ j \in Range(enumOut.reached)

-----------------------------------------------------------------------------
(* table_to_grid: pending rowspans and the cells of the following rows *)

\* the columns a placed cell covers
ColumnsOfPlaced(p) == p.col..Min(p.col + p.cell.colspan - 1, MaxWidth(table))

\* C26: a cell is placed only into a column that no rowspan of an earlier
\* row still covers, also when the spanning cell is empty: the first column
\* of a placed cell is no column of a cell of an earlier row whose rowspan
\* reaches the row.
C26_PendingColumnNotFree ==
    gridPc = "done" =>
        \A p, q \in gridLog.placed :
            (q.r < p.r /\ p.r <= q.r + q.cell.rowspan - 1) =>
                p.col \notin ColumnsOfPlaced(q)

\* a spanning cell with a text does keep its columns from the cells of the
\* following row
C26_TextSpansReserve ==
    gridPc = "done" =>
        \A p, q \in gridLog.placed :
            (q.r < p.r /\ p.r <= q.r + q.cell.rowspan - 1 /\ cell_text(q.cell) # None) =>
                p.col \notin ColumnsOfPlaced(q)

\* C27: no cell is lost: the text of every cell of the table that is not
\* empty is somewhere in the grid, also in a row whose cells together with
\* the columns that earlier rowspans cover are more than the grid is wide.
C27_NoCellLost ==
    gridPc = "done" =>
        \A r \in 1..Len(table) : \A j \in 1..Len(table[r]) :
            cell_text(table[r][j]) # None =>
                \E i \in 1..Len(grid) : \E c \in 1..Len(grid[i]) :
                    grid[i][c] = cell_text(table[r][j])

\* the cells are all kept when no rowspan of an earlier row reaches a row
C27_NoCellLostWithoutRowspan ==
    (gridPc = "done" /\ \A r \in 1..Len(table) : \A j \in 1..Len(table[r]) :
                            table[r][j].rowspan = 1) =>
        \A r \in 1..Len(table) : \A j \in 1..Len(table[r]) :
            cell_text(table[r][j]) # None =>
                \E i \in 1..Len(grid) : \E c \in 1..Len(grid[i]) :
                    grid[i][c] = cell_text(table[r][j])

-----------------------------------------------------------------------------
(* _extract_product_specs: the values of the chosen table *)

\* the table's mapping has a value
CarriesValues(tbl) ==
    \E k \in DOMAIN parse_nafdac_table(tbl) : parse_nafdac_table(tbl)[k] # << >>

\* C28: every key of the mapping returned for a page has a value, so a
\* table without values is never the chosen one: when a table of the page
\* carries values, the result is the mapping of the first such table.
C28_ChosenTableHasValues ==
    pagePc = "done" =>
        /\ \A k \in DOMAIN pageSpecs : pageSpecs[k] # << >>
        /\ \A i \in 1..Len(pageTables) :
              (CarriesValues(pageTables[i])
                  /\ \A j \in 1..(i - 1) : ~CarriesValues(pageTables[j])) =>
                  pageSpecs = parse_nafdac_table(pageTables[i])

\* the two-column tables give no key without a value
C28_PairsKeysHaveValues ==
    (pagePc = "done"
        /\ \A i \in 1..Len(pageTables) :
              table_to_grid(pageTables[i]) = << >> \/ Len(table_to_grid(pageTables[i])[1]) < 3) =>
        \A k \in DOMAIN pageSpecs : pageSpecs[k] # << >>

-----------------------------------------------------------------------------
(* make_record_id: which part is absent *)

\* C29: for one source, detail URL and publish date, an alert with a title
\* X and no manufacturer and an alert with no title and the manufacturer X
\* get different record_ids.
C29_AbsentPositionDistinguished ==
    \A e1, e2 \in idLog :
        (/\ e1.adapter = "NAFDAC_NG" /\ e2.adapter = "NAFDAC_NG"
         /\ e1.item.url = e2.item.url /\ e1.item.publish_date = e2.item.publish_date
         /\ e1.item.title # None /\ e1.item.manufacturer = None
         /\ e2.item.title = None /\ e2.item.manufacturer = e1.item.title
         /\ e1.id # AttributeError /\ e2.id # AttributeError) =>
            e1.id # e2.id

\* alerts whose parts differ in a text that is present get different ids
C29_PresentPartsDistinguished ==
    \A e1, e2 \in idLog :
        (/\ e1.adapter = "NAFDAC_NG" /\ e2.adapter = "NAFDAC_NG"
         /\ e1.item.title # None /\ e2.item.title # None
         /\ e1.item.manufacturer # None /\ e2.item.manufacturer # None
         /\ Strip(e1.item.manufacturer) # Strip(e2.item.manufacturer)
         /\ e1.id # AttributeError /\ e2.id # AttributeError) =>
            e1.id # e2.id

-----------------------------------------------------------------------------
(* upsert_df: a record without publish_date *)

\* C30: an upsert_df call with a null publish_date completes; a new row is
\* stored with a null publish_date, and a row stored before keeps its
\* publish_date.
C30_NullPublishDateAccepted ==
    (lastCall.routine = "upsert_df" /\ lastCall.row["publish_date"] \in { None, NaT }) =>
        /\ lastCall.out = "ok"
        /\ \E r \in recalls :
              /\ r["record_id"] = lastCall.row["record_id"]
              /\ lastCall.before = {} => r["publish_date"] = None
              /\ \A b \in lastCall.before : r["publish_date"] = b["publish_date"]

\* the other optional fields are accepted when null and leave the stored
\* value alone
C30_OtherNullFieldsAccepted ==
    \A c \in OptionalFields \ { "publish_date" } :
        (lastCall.routine = "upsert_df" /\ lastCall.row[c] = None) =>
            /\ lastCall.out = "ok"
            /\ \E r \in recalls :
                  /\ r["record_id"] = lastCall.row["record_id"]
                  /\ lastCall.before = {} => r[c] = None
                  /\ \A b \in lastCall.before : r[c] = b[c]

=============================================================================
